---- MODULE Spec2Model ----
(***************************************************************************)
(* XGBoost4JS: the gradient-boosting engine of xgboost.ts (class XGBoost,  *)
(* sigmoid, mulberry32) as a state machine.                                *)
(*                                                                         *)
(* Numbers.  JavaScript numbers are modelled by exact rationals <<n, d>>   *)
(* (d > 0, lowest terms); the hyperparameters and data of the model are    *)
(* small integers and dyadic rates, for which the code's sums, products    *)
(* and quotients are the rationals computed here.  The logistic link is    *)
(* transcendental: a raw score of the binary task is kept as the pair      *)
(* [lg, r] standing for  ln(lg / (1 - lg)) + r, and sigmoid is evaluated   *)
(* where it is rational (sigmoid(logit(m)) = m).  32-bit words of the      *)
(* generator are pairs <<hi, lo>> of 16-bit halves.                        *)
(*                                                                         *)
(* Evaluation.  JavaScript evaluates an argument or a const once.  The     *)
(* operators below bind their intermediate values the same way, as         *)
(* Only({body : v \in {value}}), so that each one is computed once.        *)
(***************************************************************************)
EXTENDS Integers, Sequences, FiniteSets, TLC

\* the element of a one-element set
Only(S) == CHOOSE r \in S : TRUE

\* ---------------------------------------------------------------- options
\* A nullable field (number | null, Node | null) is <<>> or <<v>>.
Null == <<>>
Some(v) == <<v>>
IsNull(o) == Len(o) = 0
Get(o) == o[1]

\* -------------------------------------------------------------- rationals
RECURSIVE Gcd(_, _)
Gcd(a0, b0) == Only({IF b = 0 THEN a ELSE Gcd(b, a % b) : a \in {a0}, b \in {b0}})

Abs(a) == IF a < 0 THEN -a ELSE a

RatNorm(n0, d0) ==
  Only({Only({<<(s * n) \div g, (s * d) \div g>> :
                s \in {IF d < 0 THEN -1 ELSE 1}, g \in {Gcd(Abs(n), Abs(d))}}) :
          n \in {n0}, d \in {d0}})

R(i) == <<i, 1>>
Zero == R(0)
One == R(1)
Half == <<1, 2>>

RatAdd(a0, b0) ==
  Only({Only({RatNorm((a[1] * (b[2] \div g)) + (b[1] * (a[2] \div g)),
                      (a[2] \div g) * b[2]) : g \in {Gcd(a[2], b[2])}}) :
          a \in {a0}, b \in {b0}})

RatNeg(a0) == Only({<<-a[1], a[2]>> : a \in {a0}})
RatSub(a, b) == RatAdd(a, RatNeg(b))

RatMul(a0, b0) ==
  Only({Only({RatNorm((a[1] \div g1) * (b[1] \div g2), (a[2] \div g2) * (b[2] \div g1)) :
                g1 \in {Gcd(Abs(a[1]), b[2])}, g2 \in {Gcd(Abs(b[1]), a[2])}}) :
          a \in {a0}, b \in {b0}})

\* a / b for b # 0 (a denominator H + lambda is positive in the model)
RatDiv(a, b0) == Only({RatMul(a, RatNorm(b[2], b[1])) : b \in {b0}})

RatLt(a0, b0) ==
  Only({Only({a[1] * (b[2] \div g) < b[1] * (a[2] \div g) : g \in {Gcd(a[2], b[2])}}) :
          a \in {a0}, b \in {b0}})
RatLe(a0, b0) ==
  Only({Only({a[1] * (b[2] \div g) <= b[1] * (a[2] \div g) : g \in {Gcd(a[2], b[2])}}) :
          a \in {a0}, b \in {b0}})
RatMax(a0, b0) == Only({IF RatLt(a, b) THEN b ELSE a : a \in {a0}, b \in {b0}})
RatMin(a0, b0) == Only({IF RatLt(b, a) THEN b ELSE a : a \in {a0}, b \in {b0}})

RECURSIVE SumSeq(_)
\* arr.reduce((a, b) => a + b, 0)
SumSeq(s0) ==
  Only({IF Len(s) = 0 THEN Zero
        ELSE RatAdd(SumSeq(SubSeq(s, 1, Len(s) - 1)), s[Len(s)]) : s \in {s0}})

\* ----------------------------------------------------------- 32-bit words
Pow16 == 256 * 256

RECURSIVE BitOp(_, _, _, _)
\* a bitwise operation on k-bit numbers, bit by bit; op is "xor" or "or"
BitOp(op, a, b, k) ==
  IF k = 0 THEN 0
  ELSE (IF op = "xor" THEN ((a % 2) + (b % 2)) % 2
        ELSE IF (a % 2) + (b % 2) > 0 THEN 1 ELSE 0)
       + (2 * BitOp(op, a \div 2, b \div 2, k - 1))

\* the operations on 4-bit digits, tabulated
XorDigit == [a \in 0..15, b \in 0..15 |-> BitOp("xor", a, b, 4)]
OrDigit == [a \in 0..15, b \in 0..15 |-> BitOp("or", a, b, 4)]

\* a ^ b and a | b on 16-bit halves, digit by digit
Xor16(a0, b0) ==
  Only({XorDigit[a % 16, b % 16]
        + (16 * XorDigit[(a \div 16) % 16, (b \div 16) % 16])
        + (256 * XorDigit[(a \div 256) % 16, (b \div 256) % 16])
        + (4096 * XorDigit[a \div 4096, b \div 4096]) : a \in {a0}, b \in {b0}})
Or16(a0, b0) ==
  Only({OrDigit[a % 16, b % 16]
        + (16 * OrDigit[(a \div 16) % 16, (b \div 16) % 16])
        + (256 * OrDigit[(a \div 256) % 16, (b \div 256) % 16])
        + (4096 * OrDigit[a \div 4096, b \div 4096]) : a \in {a0}, b \in {b0}})

ToWord(n) == <<(n \div Pow16) % Pow16, n % Pow16>>
WAdd(a0, b0) ==
  Only({Only({<<(a[1] + b[1] + (lo \div Pow16)) % Pow16, lo % Pow16>> :
                lo \in {a[2] + b[2]}}) : a \in {a0}, b \in {b0}})
WXor(a0, b0) ==
  Only({<<Xor16(a[1], b[1]), Xor16(a[2], b[2])>> : a \in {a0}, b \in {b0}})
WOr(a0, b0) ==
  Only({<<Or16(a[1], b[1]), Or16(a[2], b[2])>> : a \in {a0}, b \in {b0}})
\* a >>> k, 0 < k <= 16
WShr(a0, k) ==
  Only({<<a[1] \div (2 ^ k), ((a[1] % (2 ^ k)) * (2 ^ (16 - k))) + (a[2] \div (2 ^ k))>> :
          a \in {a0}})

\* Math.imul(a, b): the low 32 bits of the product, by 8-bit limbs
Imul(a0, b0) ==
  Only({Only({Only({Only({Only({
      <<((s3 % 256) * 256) + (s2 % 256), ((s1 % 256) * 256) + (s0 % 256)>> :
        s3 \in {(a[1] * b[4]) + (a[2] * b[3]) + (a[3] * b[2]) + (a[4] * b[1])
                + (s2 \div 256)}}) :
        s2 \in {(a[1] * b[3]) + (a[2] * b[2]) + (a[3] * b[1]) + (s1 \div 256)}}) :
        s1 \in {(a[1] * b[2]) + (a[2] * b[1]) + (s0 \div 256)}}) :
        s0 \in {a[1] * b[1]}}) :
        a \in {Only({<<w[2] % 256, w[2] \div 256, w[1] % 256, w[1] \div 256>> :
                       w \in {a0}})},
        b \in {Only({<<w[2] % 256, w[2] \div 256, w[1] % 256, w[1] \div 256>> :
                       w \in {b0}})}})

\* 0x6d2b79f5
MulberryIncrement == <<27947, 31221>>

\* mulberry32(a): the closure's state after construction is the seed
Mulberry32Seed(seed) == ToWord(seed)

\* one call of the closure: [a |-> the new state, u |-> the 32-bit numerator
\* of the returned value u / 4294967296]
Mulberry32Next(a) ==
  Only({Only({Only({[a |-> a1, u |-> WXor(t2, WShr(t2, 14))] :
      t2 \in {WXor(t1, WAdd(t1, Imul(WXor(t1, WShr(t1, 7)), WOr(t1, ToWord(61)))))}}) :
      t1 \in {Imul(WXor(a1, WShr(a1, 15)), WOr(a1, ToWord(1)))}}) :
      a1 \in {WAdd(a, MulberryIncrement)}})

\* ------------------------------------------------------------- class Node
\* new Node() with isLeaf = true, value = w
LeafNode(w) ==
  [featureIndex |-> Null, threshold |-> Null, left |-> Null, right |-> Null,
   value |-> Some(w), isLeaf |-> TRUE]

\* new Node() with featureIndex, threshold, left and right assigned
SplitNode(f, thr, l, r) ==
  [featureIndex |-> Some(f), threshold |-> Some(thr), left |-> Some(l),
   right |-> Some(r), value |-> Null, isLeaf |-> FALSE]

\* ------------------------------------------------------------ _buildTree
\* Rows and features are numbered from 1 (JavaScript's index + 1).
RECURSIVE InsertSorted(_, _, _, _)
\* the place of row i in a list sorted by the value of feature f, after its equals
InsertSorted(sorted0, i, X, f) ==
  Only({IF Len(sorted) = 0 THEN <<i>>
        ELSE IF RatLe(X[sorted[Len(sorted)]][f], X[i][f]) THEN Append(sorted, i)
        ELSE Append(InsertSorted(SubSeq(sorted, 1, Len(sorted) - 1), i, X, f),
                    sorted[Len(sorted)]) : sorted \in {sorted0}})

RECURSIVE SortTuples(_, _, _)
\* tuples.sort((a, b) => a.v - b.v) on rows 1..k: ascending and stable
SortTuples(k, X, f) ==
  IF k = 0 THEN <<>> ELSE InsertSorted(SortTuples(k - 1, X, f), k, X, f)

\* 0.5*GL*GL/(HL+lambda) + 0.5*GR*GR/(HR+lambda) - 0.5*G*G/(H+lambda) - gamma
SplitGain(GL, HL, GR, HR, G, H, lambda, gamma) ==
  RatSub(
    RatSub(
      RatAdd(RatDiv(RatMul(Half, RatMul(GL, GL)), RatAdd(HL, lambda)),
             RatDiv(RatMul(Half, RatMul(GR, GR)), RatAdd(HR, lambda))),
      RatDiv(RatMul(Half, RatMul(G, G)), RatAdd(H, lambda))),
    gamma)

\* the threshold at the lower of the two values
MidpointLow(a, b) == a

\* (tuples[i].v + tuples[i + 1].v) / 2
Midpoint(a, b) == RatDiv(RatAdd(a, b), R(2))

\* node.value = -G / (H + this.lambda)
LeafWeight(G, H, lambda) == RatDiv(RatNeg(G), RatAdd(H, lambda))

\* best = { f, thr, L, R }: L the tuples' rows with X[row][f] <= thr, R the others
Partition(X, f, thr, tuples) ==
  LET goesLeft(k) == RatLe(X[k][f], thr)
      goesRight(k) == ~goesLeft(k)
  IN  [f |-> f, thr |-> thr, L |-> SelectSeq(tuples, goesLeft),
       R |-> SelectSeq(tuples, goesRight)]

\* the body of the inner loop with  if (gain >= bestGain) { ... }
CandidateLastWins(hp, X, f, tuples, i, GL, HL, GR, HR, G, H, acc) ==
  IF X[tuples[i]][f] = X[tuples[i + 1]][f] THEN acc
  ELSE IF RatLt(HL, hp.minChildWeight) \/ RatLt(HR, hp.minChildWeight) THEN acc
  ELSE Only({IF IsNull(acc.bestGain) \/ RatLe(Get(acc.bestGain), gain)
             THEN Only({[bestGain |-> Some(gain),
                         best |-> Some(Partition(X, f, thr, tuples))] :
                          thr \in {Midpoint(X[tuples[i]][f], X[tuples[i + 1]][f])}})
             ELSE acc :
               gain \in {SplitGain(GL, HL, GR, HR, G, H, hp.lambda, hp.gamma)}})

\* the body of the inner loop without the test of HL and HR
CandidateAnyWeight(hp, X, f, tuples, i, GL, HL, GR, HR, G, H, acc) ==
  IF X[tuples[i]][f] = X[tuples[i + 1]][f] THEN acc
  ELSE Only({IF IsNull(acc.bestGain) \/ RatLt(Get(acc.bestGain), gain)
             THEN Only({[bestGain |-> Some(gain),
                         best |-> Some(Partition(X, f, thr, tuples))] :
                          thr \in {Midpoint(X[tuples[i]][f], X[tuples[i + 1]][f])}})
             ELSE acc :
               gain \in {SplitGain(GL, HL, GR, HR, G, H, hp.lambda, hp.gamma)}})

\* the body of the inner loop at position i once GL, HL, GR, HR are updated:
\* the two skips, the gain and  if (gain > bestGain) { ... };
\* acc is [bestGain, best] (bestGain Null is -Infinity)
Candidate(hp, X, f, tuples, i, GL, HL, GR, HR, G, H, acc) ==
  IF X[tuples[i]][f] = X[tuples[i + 1]][f] THEN acc
  ELSE IF RatLt(HL, hp.minChildWeight) \/ RatLt(HR, hp.minChildWeight) THEN acc
  ELSE Only({IF IsNull(acc.bestGain) \/ RatLt(Get(acc.bestGain), gain)
             THEN Only({[bestGain |-> Some(gain),
                         best |-> Some(Partition(X, f, thr, tuples))] :
                          thr \in {Midpoint(X[tuples[i]][f], X[tuples[i + 1]][f])}})
             ELSE acc :
               gain \in {SplitGain(GL, HL, GR, HR, G, H, hp.lambda, hp.gamma)}})

RECURSIVE ScanFeature(_, _, _, _, _, _, _, _, _, _, _, _)
\* the inner loop over the sorted tuples of feature f, from position i with
\* the running sums GL0, HL0 of positions 1..i-1
ScanFeature(hp, X, grad, hess, G, H, f, tuples, i, GL0, HL0, acc) ==
  IF i > Len(tuples) - 1 THEN acc
  ELSE
    Only({Only({Only({
        ScanFeature(hp, X, grad, hess, G, H, f, tuples, i + 1, GL, HL, acc2) :
          acc2 \in {Candidate(hp, X, f, tuples, i, GL, HL, GR, HR, G, H, acc)}}) :
          GR \in {RatSub(G, GL)}, HR \in {RatSub(H, HL)}}) :
          GL \in {RatAdd(GL0, grad[tuples[i]])}, HL \in {RatAdd(HL0, hess[tuples[i]])}})

RECURSIVE ScanFeatures(_, _, _, _, _, _, _, _, _)
\* for (const f of featureIndices) { sort; scan }
ScanFeatures(hp, X, grad, hess, G, H, featureIndices, j, acc) ==
  IF j > Len(featureIndices) THEN acc
  ELSE
    Only({Only({ScanFeatures(hp, X, grad, hess, G, H, featureIndices, j + 1, acc2) :
        acc2 \in {ScanFeature(hp, X, grad, hess, G, H, featureIndices[j], tuples, 1,
                              Zero, Zero, acc)}}) :
        tuples \in {SortTuples(Len(X), X, featureIndices[j])}})

\* bestGain = -Infinity, best = null, then the loop over the features
BestSplit(hp, X, grad, hess, G, H, featureIndices) ==
  ScanFeatures(hp, X, grad, hess, G, H, featureIndices, 1,
               [bestGain |-> Null, best |-> Null])

\* depth >= maxDepth || H < minChildWeight || X.length <= 1
StopCriteria(hp, X, H, depth) ==
  \/ depth >= hp.maxDepth
  \/ RatLt(H, hp.minChildWeight)
  \/ Len(X) <= 1

\* the test with  !best  alone
NoValidCandidate(acc) == IsNull(acc.best)

\* the test with  bestGain < 0
NoPositiveGainAllowsZero(acc) == IsNull(acc.best) \/ RatLt(Get(acc.bestGain), Zero)

\* !best || bestGain <= 0
NoPositiveGain(acc) == IsNull(acc.best) \/ RatLe(Get(acc.bestGain), Zero)

\* the update with  importanceGain[best.f] = Math.max(0, bestGain)
UpdateImportanceOverwrites(imp, f, bestGain) ==
  IF Len(imp.gain) = 0 THEN imp
  ELSE [gain |-> [imp.gain EXCEPT ![f] = RatMax(Zero, bestGain)],
        count |-> [imp.count EXCEPT ![f] = @ + 1]]

\* importanceGain[best.f] += Math.max(0, bestGain); importanceCount[best.f] += 1
\* (skipped when importanceGain is empty); imp is [gain, count]
UpdateImportance(imp, f, bestGain) ==
  IF Len(imp.gain) = 0 THEN imp
  ELSE [gain |-> [imp.gain EXCEPT ![f] = RatAdd(@, RatMax(Zero, bestGain))],
        count |-> [imp.count EXCEPT ![f] = @ + 1]]

\* idx.map((i) => s[i])
Pick(s, idx) == [k \in 1..Len(idx) |-> s[idx[k]]]

RECURSIVE BuildTree(_, _, _, _, _, _, _)
\* the split node with the subtrees built at the depth of their parent
BuildSplitSameDepth(hp, X, grad, hess, depth, featureIndices, imp, best, bestGain) ==
  Only({Only({[node |-> SplitNode(best.f, best.thr, l.node, r.node), imp |-> r.imp] :
      r \in {BuildTree(hp, Pick(X, best.R), Pick(grad, best.R), Pick(hess, best.R),
                       depth, featureIndices, l.imp)}}) :
      l \in {BuildTree(hp, Pick(X, best.L), Pick(grad, best.L), Pick(hess, best.L),
                       depth, featureIndices,
                       UpdateImportance(imp, best.f, bestGain))}})

\* the split node of _buildTree and the importance accumulators after it:
\* the update of the importances, then the left and the right subtree
BuildSplit(hp, X, grad, hess, depth, featureIndices, imp, best, bestGain) ==
  Only({Only({[node |-> SplitNode(best.f, best.thr, l.node, r.node), imp |-> r.imp] :
      r \in {BuildTree(hp, Pick(X, best.R), Pick(grad, best.R), Pick(hess, best.R),
                       depth + 1, featureIndices, l.imp)}}) :
      l \in {BuildTree(hp, Pick(X, best.L), Pick(grad, best.L), Pick(hess, best.L),
                       depth + 1, featureIndices,
                       UpdateImportance(imp, best.f, bestGain))}})

\* _buildTree: [node, imp], imp the importance accumulators after the call
BuildTree(hp, X0, grad0, hess0, depth, featureIndices, imp0) ==
  Only({Only({
      IF StopCriteria(hp, X, H, depth)
      THEN [node |-> LeafNode(LeafWeight(G, H, hp.lambda)), imp |-> imp]
      ELSE Only({IF NoPositiveGain(acc)
                 THEN [node |-> LeafNode(LeafWeight(G, H, hp.lambda)), imp |-> imp]
                 ELSE BuildSplit(hp, X, grad, hess, depth, featureIndices, imp,
                                 Get(acc.best), Get(acc.bestGain)) :
                   acc \in {BestSplit(hp, X, grad, hess, G, H, featureIndices)}}) :
        G \in {SumSeq(grad)}, H \in {SumSeq(hess)}}) :
        X \in {X0}, grad \in {grad0}, hess \in {hess0}, imp \in {imp0}})

\* ------------------------------------------------------ scores and links
\* A raw score is [lg, r], the number ln(lg / (1 - lg)) + r with 0 < lg < 1;
\* lg = 1/2 is the plain rational r.
Plain(q) == [lg |-> Half, r |-> q]
ScoreAdd(z0, q) == Only({[lg |-> z.lg, r |-> RatAdd(z.r, q)] : z \in {z0}})

\* Math.log(meanY / (1 - meanY))
Logit(meanY) == [lg |-> meanY, r |-> Zero]

\* sigmoid(z): the rational lg where z = logit(lg); otherwise the value is
\* irrational and is kept as the term [sig |-> z] (sigmoid is injective)
Sigmoid(z0) == Only({IF z.r = Zero THEN Plain(z.lg) ELSE [sig |-> z] : z \in {z0}})

\* 1e-6
Eps == <<1, 1000000>>

\* Math.max(1e-6, p * (1 - p)); p * (1 - p) < min(p, 1 - p), so the product
\* is below 1e-6 when p or 1 - p is (this keeps the arithmetic in 32 bits)
BinaryHess(p0) ==
  Only({IF RatLe(p, Eps) \/ RatLe(RatSub(One, p), Eps) THEN Eps
        ELSE RatMax(Eps, RatMul(p, RatSub(One, p))) : p \in {p0}})

\* ------------------------------------------------------------ constructor
DefaultLearningRate == <<3, 10>>
DefaultMaxDepth == 4
DefaultNumRounds == 100
DefaultSeed == 1337

\* a ?? b
OrElse(o0, d) == Only({IF IsNull(o) THEN d ELSE Get(o) : o \in {o0}})

\* new XGBoost(params): the fields after construction
Construct(params) ==
  [learningRate |-> OrElse(params.learningRate, DefaultLearningRate),
   maxDepth |-> OrElse(params.maxDepth, DefaultMaxDepth),
   minChildWeight |-> OrElse(params.minChildWeight, One),
   numRounds |-> OrElse(params.numRounds, DefaultNumRounds),
   task |-> OrElse(params.task, "binary"),
   lambda |-> OrElse(params.lambda, One),
   gamma |-> OrElse(params.gamma, Zero),
   subsample |-> OrElse(params.subsample, One),
   colsampleByTree |-> OrElse(params.colsampleByTree, One),
   seed |-> OrElse(params.seed, DefaultSeed),
   rng |-> Mulberry32Seed(OrElse(params.seed, DefaultSeed)),
   trees |-> <<>>,
   baseScore |-> Plain(Zero),
   nFeatures |-> 0,
   importanceGain |-> <<>>,
   importanceCount |-> <<>>]

\* ------------------------------------------------------------- prediction
RECURSIVE PredictRawStrict(_, _)
\* the traversal going left on  x[featureIndex] < threshold
PredictRawStrict(x, node0) ==
  Only({IF node.isLeaf THEN OrElse(node.value, Zero)
        ELSE IF OrElse(node.featureIndex, 1) > Len(x) \/ IsNull(node.threshold) THEN Zero
        ELSE IF RatLt(x[Get(node.featureIndex)], Get(node.threshold))
             THEN PredictRawStrict(x, Get(node.left))
             ELSE PredictRawStrict(x, Get(node.right)) : node \in {node0}})

RECURSIVE PredictRawUnchecked(_, _)
\* the traversal without the safety check: a missing x[featureIndex] is
\* undefined, undefined <= threshold is false, and the way goes right
PredictRawUnchecked(x, node0) ==
  Only({IF node.isLeaf THEN OrElse(node.value, Zero)
        ELSE IF IsNull(node.threshold) THEN Zero
        ELSE IF OrElse(node.featureIndex, 1) <= Len(x)
                  /\ RatLe(x[Get(node.featureIndex)], Get(node.threshold))
             THEN PredictRawUnchecked(x, Get(node.left))
             ELSE PredictRawUnchecked(x, Get(node.right)) : node \in {node0}})

RECURSIVE PredictRaw(_, _)
\* _predictRaw(x, node)
PredictRaw(x, node0) ==
  Only({IF node.isLeaf THEN OrElse(node.value, Zero)
        ELSE IF OrElse(node.featureIndex, 1) > Len(x) \/ IsNull(node.threshold) THEN Zero
        ELSE IF RatLe(x[Get(node.featureIndex)], Get(node.threshold))
             THEN PredictRaw(x, Get(node.left))
             ELSE PredictRaw(x, Get(node.right)) : node \in {node0}})

RECURSIVE SumTrees(_, _, _, _)
\* for (const tree of this.trees) raw += this.learningRate * this._predictRaw(x, tree.root)
SumTrees(self, x, k, raw0) ==
  Only({IF k > Len(self.trees) THEN raw
        ELSE SumTrees(self, x, k + 1,
                      ScoreAdd(raw, RatMul(self.learningRate,
                                           PredictRaw(x, self.trees[k].root)))) :
          raw \in {raw0}})

\* predictSingle(x)
PredictSingle(self, x) ==
  Only({IF self.task = "binary" THEN Sigmoid(raw) ELSE raw :
          raw \in {SumTrees(self, x, 1, self.baseScore)}})

\* predictBatch(X)
PredictBatch(self, X) == [i \in 1..Len(X) |-> PredictSingle(self, X[i])]

\* getFeatureImportance()
GetFeatureImportance(self) ==
  IF Len(self.importanceGain) = 0 THEN <<>> ELSE self.importanceGain

\* ---------------------------------------------------------- serialization
\* toJSON()
ToJSON(self) ==
  [trees |-> self.trees,
   params |-> [learningRate |-> Some(self.learningRate), maxDepth |-> Some(self.maxDepth),
               minChildWeight |-> Some(self.minChildWeight),
               numRounds |-> Some(self.numRounds), task |-> Some(self.task),
               lambda |-> Some(self.lambda), gamma |-> Some(self.gamma),
               subsample |-> Some(self.subsample),
               colsampleByTree |-> Some(self.colsampleByTree), seed |-> Some(self.seed)],
   meta |-> Some([baseScore |-> self.baseScore, nFeatures |-> self.nFeatures,
                  importanceGain |-> self.importanceGain,
                  importanceCount |-> self.importanceCount])]

\* fromJSON without  if (json.meta) { ... }
FromJSONWithoutMeta(json) == [Construct(json.params) EXCEPT !.trees = json.trees]

\* XGBoost.fromJSON(json)
FromJSON(json) ==
  Only({IF IsNull(json.meta) THEN model
        ELSE [model EXCEPT !.baseScore = Get(json.meta).baseScore,
                           !.nFeatures = Get(json.meta).nFeatures,
                           !.importanceGain = Get(json.meta).importanceGain,
                           !.importanceCount = Get(json.meta).importanceCount] :
          model \in {[Construct(json.params) EXCEPT !.trees = json.trees]}})

\* ---------------------------------------------------------------- sampling
\* this.rng() < rate, for a rate whose denominator divides 2^16:
\* u / 2^32 < rate  iff  the high half of u is below rate * 2^16
DrawBelow(u, rate) == u[1] < (rate[1] * Pow16) \div rate[2]

\* Math.floor(this.rng() * n), 0-based
DrawIndex(u, n) == ((u[1] * n) + ((u[2] * n) \div Pow16)) \div Pow16

\* Math.max(0, Math.min(1, rate))
ClampRate(rate) == RatMax(Zero, RatMin(One, rate))

RECURSIVE DrawRows(_, _, _, _, _)
\* for (let i = 0; i < y.length; i++) if (this.rng() < rate) rowIdx.push(i)
DrawRows(a, rate, i, n, rowIdx0) ==
  Only({IF i > n THEN [a |-> a, rowIdx |-> rowIdx]
        ELSE Only({DrawRows(d.a, rate, i + 1, n,
                            IF DrawBelow(d.u, rate) THEN Append(rowIdx, i) ELSE rowIdx) :
                     d \in {Mulberry32Next(a)}}) : rowIdx \in {rowIdx0}})

\* the row subsampling without its fallback
RowFallbackMissing(drawn, n) == drawn

\* if (rowIdx.length === 0) rowIdx.push(Math.floor(this.rng() * y.length))
RowFallback(drawn, n) ==
  IF Len(drawn.rowIdx) = 0
  THEN Only({[a |-> d.a, rowIdx |-> <<DrawIndex(d.u, n) + 1>>] :
               d \in {Mulberry32Next(drawn.a)}})
  ELSE drawn

\* the row subsampling of one round: [a, rowIdx]
RowSubsample(a, subsample, n) ==
  Only({IF RatLe(One, rate) THEN [a |-> a, rowIdx |-> [i \in 1..n |-> i]]
        ELSE Only({RowFallback(drawn, n) : drawn \in {DrawRows(a, rate, 1, n, <<>>)}}) :
          rate \in {ClampRate(subsample)}})

\* the comparator () => this.rng() - 0.5 returns a negative number
DrawNegative(u) == u[1] < Pow16 \div 2

RECURSIVE CountRun(_, _, _, _)
\* the length of the first run of an array of length n >= 2 whose first
\* comparison said descending (or not): one draw per comparison, the
\* breaking one included; [a, len]
CountRun(a, descending, idx, n) ==
  IF idx > n THEN [a |-> a, len |-> n]
  ELSE Only({IF DrawNegative(d.u) = descending
             THEN CountRun(d.a, descending, idx + 1, n)
             ELSE [a |-> d.a, len |-> idx - 1] : d \in {Mulberry32Next(a)}})

Reverse(s) == [i \in 1..Len(s) |-> s[Len(s) + 1 - i]]

RECURSIVE BinarySearch(_, _, _)
\* the place of the pivot among positions left..right-1 (0-based): [a, left]
BinarySearch(a, left, right) ==
  IF left >= right THEN [a |-> a, left |-> left]
  ELSE Only({IF DrawNegative(d.u) THEN BinarySearch(d.a, left, mid)
             ELSE BinarySearch(d.a, mid + 1, right) :
               mid \in {left + ((right - left) \div 2)}, d \in {Mulberry32Next(a)}})

RECURSIVE BinaryInsertion(_, _, _)
\* binary insertion of the elements from position start (0-based) on
BinaryInsertion(a, arr0, start) ==
  Only({IF start >= Len(arr) THEN [a |-> a, arr |-> arr]
        ELSE Only({BinaryInsertion(pos.a,
                                   SubSeq(arr, 1, pos.left) \o <<arr[start + 1]>> \o
                                   SubSeq(arr, pos.left + 1, start) \o
                                   SubSeq(arr, start + 2, Len(arr)),
                                   start + 1) : pos \in {BinarySearch(a, 0, start)}}) :
          arr \in {arr0}})

\* the array after the first run is counted and, when descending, reversed
FirstRun(arr, descending, len) ==
  IF descending THEN Reverse(SubSeq(arr, 1, len)) \o SubSeq(arr, len + 1, Len(arr))
  ELSE arr

\* Array.from({length: n}, (_, i) => i).sort(() => this.rng() - 0.5).  The
\* comparator is inconsistent, so the order is the engine's: this is V8's
\* sort of a short array (the first run is counted and, when descending,
\* reversed; the rest is inserted by binary search); [a, arr]
ShuffleSort(a, n) ==
  IF n < 2 THEN [a |-> a, arr |-> [i \in 1..n |-> i]]
  ELSE Only({Only({BinaryInsertion(run.a,
                                   FirstRun([i \in 1..n |-> i], DrawNegative(d.u), run.len),
                                   run.len) :
                     run \in {CountRun(d.a, DrawNegative(d.u), 3, n)}}) :
               d \in {Mulberry32Next(a)}})

\* Math.round(q) for q >= 0
Round(q0) == Only({((2 * q[1]) + q[2]) \div (2 * q[2]) : q \in {q0}})

Max(a0, b0) == Only({IF a < b THEN b ELSE a : a \in {a0}, b \in {b0}})

\* the column subsampling keeping every shuffled feature
ColSubsampleKeepsAll(a, colsampleByTree, nFeatures) ==
  Only({IF RatLe(One, colRate) THEN [a |-> a, featIdx |-> [f \in 1..nFeatures |-> f]]
        ELSE Only({[a |-> shuffled.a, featIdx |-> shuffled.arr] :
                     shuffled \in {ShuffleSort(a, nFeatures)}}) :
          colRate \in {ClampRate(colsampleByTree)}})

\* the column subsampling of one round: [a, featIdx]
ColSubsample(a, colsampleByTree, nFeatures) ==
  Only({IF RatLe(One, colRate) THEN [a |-> a, featIdx |-> [f \in 1..nFeatures |-> f]]
        ELSE Only({[a |-> shuffled.a,
                    featIdx |-> SubSeq(shuffled.arr, 1,
                                       Max(1, Round(RatMul(colRate, R(nFeatures)))))] :
                     shuffled \in {ShuffleSort(a, nFeatures)}}) :
          colRate \in {ClampRate(colsampleByTree)}})

\* -------------------------------------------------------------------- fit
\* !X.length || !X[0]?.length || X.length !== y.length
FitRejects(X, y) == Len(X) = 0 \/ Len(X[1]) = 0 \/ Len(X) # Len(y)

\* y.reduce((a, b) => a + b, 0) / y.length
Mean(y) == RatDiv(SumSeq([i \in 1..Len(y) |-> R(y[i])]), R(Len(y)))

\* the base score of fit
BaseScore(task, y) ==
  IF task = "binary"
  THEN Logit(RatMin(RatSub(One, Eps), RatMax(Eps, Mean(y))))
  ELSE Plain(Mean(y))

\* the reset without  this.trees = []
FitResetKeepsTrees(self, X, y) ==
  [self EXCEPT !.nFeatures = Len(X[1]),
               !.importanceGain = [f \in 1..Len(X[1]) |-> Zero],
               !.importanceCount = [f \in 1..Len(X[1]) |-> 0],
               !.baseScore = BaseScore(self.task, y)]

\* the reset with accumulators of one entry per row
FitResetByRows(self, X, y) ==
  [self EXCEPT !.trees = <<>>,
               !.nFeatures = Len(X[1]),
               !.importanceGain = [f \in 1..Len(X) |-> Zero],
               !.importanceCount = [f \in 1..Len(X) |-> 0],
               !.baseScore = BaseScore(self.task, y)]

\* the fields of the model after fit's reset and base score
FitReset(self, X, y) ==
  [self EXCEPT !.trees = <<>>,
               !.nFeatures = Len(X[1]),
               !.importanceGain = [f \in 1..Len(X[1]) |-> Zero],
               !.importanceCount = [f \in 1..Len(X[1]) |-> 0],
               !.baseScore = BaseScore(self.task, y)]

\* grad[i] of a round
Gradient(task, rawi, yi) ==
  IF task = "binary" THEN RatSub(Sigmoid(rawi).r, R(yi)) ELSE RatSub(rawi.r, R(yi))

\* hess[i] = 1 whatever the task
HessianOfSquaredError(task, rawi) == One

\* hess[i] of a round
Hessian(task, rawi) ==
  IF task = "binary" THEN BinaryHess(Sigmoid(rawi).r) ELSE One

\* the iteration updating the raw scores of the sampled rows only
FitRoundStepSampledRows(self, X, y, raw) ==
  Only({Only({Only({Only({
      [self |-> [self EXCEPT !.rng = cols.a,
                             !.trees = Append(@, [root |-> built.node]),
                             !.importanceGain = built.imp.gain,
                             !.importanceCount = built.imp.count],
       raw |-> [i \in 1..Len(X) |->
                  IF \E k \in 1..Len(rows.rowIdx) : rows.rowIdx[k] = i
                  THEN ScoreAdd(raw[i], RatMul(self.learningRate,
                                               PredictRaw(X[i], built.node)))
                  ELSE raw[i]],
       grad |-> grad, hess |-> hess,
       rowIdx |-> rows.rowIdx, featIdx |-> cols.featIdx] :
      built \in {BuildTree(self, Pick(X, rows.rowIdx), Pick(grad, rows.rowIdx),
                           Pick(hess, rows.rowIdx), 0, cols.featIdx,
                           [gain |-> self.importanceGain,
                            count |-> self.importanceCount])}}) :
      cols \in {ColSubsample(rows.a, self.colsampleByTree, self.nFeatures)}}) :
      rows \in {RowSubsample(self.rng, self.subsample, Len(y))}}) :
      grad \in {[i \in 1..Len(y) |-> Gradient(self.task, raw[i], y[i])]},
      hess \in {[i \in 1..Len(y) |-> Hessian(self.task, raw[i])]}})

\* one iteration of fit's loop: the model's fields and fit's locals after it
FitRoundStep(self, X, y, raw) ==
  Only({Only({Only({Only({
      [self |-> [self EXCEPT !.rng = cols.a,
                             !.trees = Append(@, [root |-> built.node]),
                             !.importanceGain = built.imp.gain,
                             !.importanceCount = built.imp.count],
       raw |-> [i \in 1..Len(X) |->
                  ScoreAdd(raw[i], RatMul(self.learningRate, PredictRaw(X[i], built.node)))],
       grad |-> grad, hess |-> hess,
       rowIdx |-> rows.rowIdx, featIdx |-> cols.featIdx] :
      built \in {BuildTree(self, Pick(X, rows.rowIdx), Pick(grad, rows.rowIdx),
                           Pick(hess, rows.rowIdx), 0, cols.featIdx,
                           [gain |-> self.importanceGain,
                            count |-> self.importanceCount])}}) :
      cols \in {ColSubsample(rows.a, self.colsampleByTree, self.nFeatures)}}) :
      rows \in {RowSubsample(self.rng, self.subsample, Len(y))}}) :
      grad \in {[i \in 1..Len(y) |-> Gradient(self.task, raw[i], y[i])]},
      hess \in {[i \in 1..Len(y) |-> Hessian(self.task, raw[i])]}})

\* ------------------------------------------------------------ Date values
\* The time value of a Date is kept in minutes since 1970-01-01T00:00Z (the
\* instants of the model are whole minutes; JavaScript counts milliseconds);
\* it is Null for an Invalid Date, whose getters return NaN.  A number given
\* as a timestamp is such a count, Null for NaN.  A string is the fields of
\* an ISO-8601 date-time with its zone designator ("Z" or none), or Null for
\* a text that is not a date.  The host's time zone is a fixed offset, in
\* minutes east of UTC.
MinutesPerDay == 24 * 60

\* NaN, as the quotient 0/0
NaN == <<0, 0>>

DaysInYear(y) == IF ((y % 4) = 0 /\ (y % 100) # 0) \/ (y % 400) = 0 THEN 366 ELSE 365

\* the day number of January 1st of year y
DayFromYear(y) ==
  (365 * (y - 1970)) + ((y - 1969) \div 4) - ((y - 1901) \div 100) + ((y - 1601) \div 400)

\* the years Date values of the model fall in
Years == 1970..2099

YearFromDay(day) == CHOOSE y \in Years : DayFromYear(y) <= day /\ day < DayFromYear(y + 1)

\* the lengths of the months of year y
MonthLengths(y) ==
  <<31, IF DaysInYear(y) = 366 THEN 29 ELSE 28, 31, 30, 31, 30, 31, 31, 30, 31, 30, 31>>

RECURSIVE MonthAndDate(_, _, _)
\* the month (from 0) and the day of the month (from 1) of day d (from 0) of
\* a year whose months from m on have these lengths
MonthAndDate(lengths, m, d) ==
  IF d < lengths[m + 1] THEN [month |-> m, date |-> d + 1]
  ELSE MonthAndDate(lengths, m + 1, d - lengths[m + 1])

\* getHours(), getDay(), getDate(), getMonth(), getFullYear() of a Date of
\* time value t on a host at this offset from UTC: the fields of the local
\* time t + offset (days: the day number of the local date)
LocalFields(t, offset) ==
  Only({Only({Only({Only({
      [hours |-> (local % MinutesPerDay) \div 60,
       day |-> (days + 4) % 7,
       date |-> md.date,
       month |-> md.month,
       year |-> year,
       days |-> days] :
      md \in {MonthAndDate(MonthLengths(year), 0, days - DayFromYear(year))}}) :
      year \in {YearFromDay(days)}}) :
      days \in {local \div MinutesPerDay}}) :
      local \in {t + offset}})

RECURSIVE DaysBeforeMonth(_, _)
\* the days of the months before month m (from 0)
DaysBeforeMonth(lengths, m) ==
  IF m = 0 THEN 0 ELSE DaysBeforeMonth(lengths, m - 1) + lengths[m]

\* the time value of the UTC date-time with these fields (month from 1)
MakeTime(f) ==
  ((DayFromYear(f.y) + DaysBeforeMonth(MonthLengths(f.y), f.mo - 1) + f.d - 1)
     * MinutesPerDay) + (f.h * 60) + f.mi

\* new Date(string): a date-time with "Z" is UTC, one with no designator is
\* local time, a text that is not a date gives an Invalid Date
DateParse(iso, offset) ==
  IF IsNull(iso) THEN Null
  ELSE IF Get(iso).z = "Z" THEN Some(MakeTime(Get(iso)))
  ELSE Some(MakeTime(Get(iso)) - offset)

\* ------------------------------------------------------ timestamp features
\* Math.sin and Math.cos at the angles of the clock, the week and the year,
\* to four decimals: sin(2 pi k / 24) for k = 0..6, and sin and cos of
\* 2 pi k / 7 for k = 0..6, in ten-thousandths
SinOfHour == <<0, 2588, 5000, 7071, 8660, 9659, 10000>>
SinOfDay == <<0, 7818, 9749, 4339, -4339, -9749, -7818>>
CosOfDay == <<10000, 6235, -2225, -9010, -9010, -2225, 6235>>

\* Math.sin(2 * Math.PI * k / 24), k in 0..24
Sin24(k) ==
  RatNorm(IF k <= 6 THEN SinOfHour[k + 1]
          ELSE IF k <= 12 THEN SinOfHour[13 - k]
          ELSE IF k <= 18 THEN -SinOfHour[k - 11]
          ELSE -SinOfHour[25 - k], 10000)

\* Math.cos(2 * Math.PI * k / 24), k in 0..24
Cos24(k) == Sin24((k + 6) % 24)

\* the quarter with getMonth() taken as counted from 1
QuarterFromOne(month) == (month + 4) \div 3

\* Math.floor((date.getMonth() + 3) / 3)
Quarter(month) == (month + 3) \div 3

\* the typeof chain of extractTimestampFeatures: the Date of a timestamp
\* [form, t, iso]
ToDate(timestamp, offset) ==
  IF timestamp.form = "number" THEN timestamp.t
  ELSE IF timestamp.form = "string" THEN DateParse(timestamp.iso, offset)
  ELSE timestamp.t

\* extractTimestampFeatures(timestamp)
ExtractTimestampFeatures(timestamp, offset) ==
  Only({IF IsNull(date)
        THEN [hour |-> NaN, dayOfWeek |-> NaN, dayOfMonth |-> NaN, month |-> NaN,
              quarter |-> NaN, isNight |-> Zero, isWeekend |-> Zero,
              hourSin |-> NaN, hourCos |-> NaN, dayOfWeekSin |-> NaN,
              dayOfWeekCos |-> NaN, monthSin |-> NaN, monthCos |-> NaN]
        ELSE Only({[hour |-> R(f.hours),
                    dayOfWeek |-> R(f.day),
                    dayOfMonth |-> R(f.date),
                    month |-> R(f.month + 1),
                    quarter |-> R(Quarter(f.month)),
                    isNight |-> IF f.hours >= 18 \/ f.hours < 6 THEN One ELSE Zero,
                    isWeekend |-> IF f.day = 0 \/ f.day = 6 THEN One ELSE Zero,
                    hourSin |-> Sin24(f.hours),
                    hourCos |-> Cos24(f.hours),
                    dayOfWeekSin |-> RatNorm(SinOfDay[f.day + 1], 10000),
                    dayOfWeekCos |-> RatNorm(CosOfDay[f.day + 1], 10000),
                    monthSin |-> Sin24(2 * (f.month + 1)),
                    monthCos |-> Cos24(2 * (f.month + 1))] :
                     f \in {LocalFields(Get(date), offset)}}) :
          date \in {ToDate(timestamp, offset)}})

\* the array with hour and dayOfWeek exchanged
TimestampFeaturesToArraySwapped(features) ==
  <<features.dayOfWeek, features.hour, features.dayOfMonth, features.month,
    features.quarter, features.isNight, features.isWeekend, features.hourSin,
    features.hourCos, features.dayOfWeekSin, features.dayOfWeekCos, features.monthSin,
    features.monthCos>>

\* timestampFeaturesToArray(features)
TimestampFeaturesToArray(features) ==
  <<features.hour, features.dayOfWeek, features.dayOfMonth, features.month,
    features.quarter, features.isNight, features.isWeekend, features.hourSin,
    features.hourCos, features.dayOfWeekSin, features.dayOfWeekCos, features.monthSin,
    features.monthCos>>

\* data.customFeatures && data.customFeatures[i] (row i from 1): the row, or
\* Null where the array is not given or has no such row
CustomRow(customFeatures, i) ==
  IF IsNull(customFeatures) THEN Null
  ELSE IF i > Len(Get(customFeatures)) THEN Null
  ELSE Some(Get(customFeatures)[i])

\* [...timeArray, ...customFeatures], or timeArray without custom features
CombineRow(timeArray, custom) ==
  IF IsNull(custom) THEN timeArray ELSE timeArray \o Get(custom)

\* prepareTimestampFeatures(data)
PrepareTimestampFeatures(data, offset) ==
  [i \in 1..Len(data.timestamps) |->
     CombineRow(TimestampFeaturesToArray(ExtractTimestampFeatures(data.timestamps[i], offset)),
                CustomRow(data.customFeatures, i))]

\* the vector predictWithTimestamp hands to predictSingle
TimestampVector(timestamp, customFeatures, offset) ==
  CombineRow(TimestampFeaturesToArray(ExtractTimestampFeatures(timestamp, offset)),
             customFeatures)

\* predictWithTimestamp(timestamp, customFeatures)
PredictWithTimestamp(self, timestamp, customFeatures, offset) ==
  PredictSingle(self, TimestampVector(timestamp, customFeatures, offset))

\* predictBatchWithTimestamps(timestamps, customFeatures)
PredictBatchWithTimestamps(self, timestamps, customFeatures, offset) ==
  [i \in 1..Len(timestamps) |->
     PredictWithTimestamp(self, timestamps[i], CustomRow(customFeatures, i), offset)]

\* ------------------------------------------------ TimestampFeatureService
\* getWeekOfYear(date), from the day number of the local date: the week of
\* the Thursday of its week, counted in that Thursday's year
GetWeekOfYear(days) ==
  Only({Only({((thursday - DayFromYear(YearFromDay(thursday))) + 7) \div 7 :
                thursday \in {days + 4 - dayNum}}) :
          dayNum \in {IF ((days + 4) % 7) = 0 THEN 7 ELSE (days + 4) % 7}})

\* TimestampFeatureService.extractTimestampFeatures(timestamp): a record of
\* the feature names (timestamp is a number or a Date)
ServiceExtractTimestampFeatures(timestamp, offset) ==
  Only({[hour |-> R(f.hours),
         dayOfWeek |-> R(f.day),
         dayOfMonth |-> R(f.date),
         month |-> R(f.month),
         isWeekend |-> IF f.day = 0 \/ f.day = 6 THEN One ELSE Zero,
         isDayTime |-> IF f.hours >= 6 /\ f.hours < 18 THEN One ELSE Zero,
         quarterOfDay |-> R(f.hours \div 6),
         weekOfYear |-> R(GetWeekOfYear(f.days))] :
          f \in {LocalFields(Get(timestamp.t), offset)}})

\* combineFeatures(timestamp, userFeatures): { ...timestampFeatures,
\* ...(userFeatures || {}) }, a user feature replacing a timestamp feature of
\* its name
CombineFeatures(timestamp, userFeatures, offset) ==
  IF IsNull(userFeatures) THEN ServiceExtractTimestampFeatures(timestamp, offset)
  ELSE Get(userFeatures) @@ ServiceExtractTimestampFeatures(timestamp, offset)

\* the feature names of the model in the order of Array.prototype.sort
SortedNames ==
  <<"dayOfMonth", "dayOfWeek", "hour", "isDayTime", "isWeekend", "month",
    "quarterOfDay", "temperature", "weekOfYear">>

\* getFeatureNames(features): Object.keys(features).sort()
GetFeatureNames(features) ==
  LET has(name) == name \in DOMAIN features
  IN  SelectSeq(SortedNames, has)

\* featuresToArray(features)
FeaturesToArray(features) ==
  Only({[k \in 1..Len(keys) |-> features[keys[k]]] : keys \in {GetFeatureNames(features)}})

\* --------------------------------------------------------- XGBoostService
\* getDefaultConfig()
GetDefaultConfig ==
  [maxDepth |-> 3, learningRate |-> <<1, 10>>, numTrees |-> 10, minChildWeight |-> 1,
   subsample |-> One, colsampleByTree |-> One]

\* { ...this.config, ...config } for a config of optional fields
MergeConfig(current, config) ==
  [k \in DOMAIN current |-> IF IsNull(config[k]) THEN current[k] ELSE Get(config[k])]

\* the fields of the service after its constructor
NewService ==
  [trees |-> <<>>, featureNames |-> <<>>, config |-> GetDefaultConfig, baseScore |-> Zero]

\* calculateVariance(values)
CalculateVariance(values0) ==
  Only({IF Len(values) = 0 THEN Zero
        ELSE Only({RatDiv(SumSeq([i \in 1..Len(values) |->
                                    RatMul(RatSub(values[i], mean),
                                           RatSub(values[i], mean))]),
                          R(Len(values))) :
                     mean \in {RatDiv(SumSeq(values), R(Len(values)))}}) :
          values \in {values0}})

\* calculateLeafValue(y)
CalculateLeafValue(y0) ==
  Only({IF Len(y) = 0 THEN Zero ELSE RatDiv(SumSeq(y), R(Len(y))) : y \in {y0}})

\* isHomogeneous(y): every value within 1e-6 of the first
IsHomogeneous(y0) ==
  Only({\A i \in 1..Len(y) :
          Only({RatLt(RatMax(d, RatNeg(d)), Eps) : d \in {RatSub(y[i], y[1])}}) :
          y \in {y0}})

\* splitData(X, featureIndex, threshold): the rows with X[i][featureIndex] <=
\* threshold, and the others
SplitData(X, featureIndex, threshold) ==
  LET goesLeft(i) == RatLe(X[i][featureIndex], threshold)
      goesRight(i) == ~goesLeft(i)
      rows == [i \in 1..Len(X) |-> i]
  IN  [leftIndices |-> SelectSeq(rows, goesLeft),
       rightIndices |-> SelectSeq(rows, goesRight)]

\* calculateGain(X, y, featureIndex, threshold); Null is -Infinity
CalculateGain(X, y, featureIndex, threshold) ==
  Only({IF Len(split.leftIndices) = 0 \/ Len(split.rightIndices) = 0 THEN Null
        ELSE Only({Only({
               Some(RatSub(CalculateVariance(y),
                           RatAdd(RatMul(RatNorm(Len(leftY), Len(y)), leftVariance),
                                  RatMul(RatNorm(Len(rightY), Len(y)), rightVariance)))) :
               leftVariance \in {CalculateVariance(leftY)},
               rightVariance \in {CalculateVariance(rightY)}}) :
               leftY \in {Pick(y, split.leftIndices)},
               rightY \in {Pick(y, split.rightIndices)}}) :
          split \in {SplitData(X, featureIndex, threshold)}})

RECURSIVE InsertUnique(_, _)
\* the ascending list of distinct values with v in it
InsertUnique(sorted0, v) ==
  Only({IF Len(sorted) = 0 THEN <<v>>
        ELSE IF sorted[Len(sorted)] = v THEN sorted
        ELSE IF RatLt(sorted[Len(sorted)], v) THEN Append(sorted, v)
        ELSE Append(InsertUnique(SubSeq(sorted, 1, Len(sorted) - 1), v),
                    sorted[Len(sorted)]) : sorted \in {sorted0}})

RECURSIVE UniqueValues(_, _, _)
\* [...new Set(values)].sort((a, b) => a - b) for the values of a feature in
\* the rows 1..k
UniqueValues(X, featureIndex, k) ==
  IF k = 0 THEN <<>>
  ELSE InsertUnique(UniqueValues(X, featureIndex, k - 1), X[k][featureIndex])

\* the body of the inner loop of findBestSplit: the gain at the midpoint of
\* two adjacent values and  if (gain > bestGain) { ... };  acc is [bestGain,
\* bestFeatureIndex, bestThreshold], bestGain Null for -Infinity and
\* bestFeatureIndex 0 for -1
TryThreshold(X, y, featureIndex, threshold, acc) ==
  Only({IF IsNull(gain) THEN acc
        ELSE IF IsNull(acc.bestGain) \/ RatLt(Get(acc.bestGain), Get(gain))
        THEN [bestGain |-> gain, bestFeatureIndex |-> featureIndex,
              bestThreshold |-> threshold]
        ELSE acc : gain \in {CalculateGain(X, y, featureIndex, threshold)}})

RECURSIVE TryThresholds(_, _, _, _, _, _)
\* the inner loop of findBestSplit from position i of the distinct values
TryThresholds(X, y, featureIndex, uniqueValues, i, acc) ==
  IF i > Len(uniqueValues) - 1 THEN acc
  ELSE Only({TryThresholds(X, y, featureIndex, uniqueValues, i + 1, acc2) :
               acc2 \in {TryThreshold(X, y, featureIndex,
                                      Midpoint(uniqueValues[i], uniqueValues[i + 1]),
                                      acc)}})

RECURSIVE TryFeatures(_, _, _, _, _)
\* the loop of findBestSplit over featuresToConsider from position j
TryFeatures(X, y, featuresToConsider, j, acc) ==
  IF j > Len(featuresToConsider) THEN acc
  ELSE Only({TryFeatures(X, y, featuresToConsider, j + 1, acc2) :
               acc2 \in {TryThresholds(X, y, featuresToConsider[j],
                                       UniqueValues(X, featuresToConsider[j], Len(X)),
                                       1, acc)}})

\* subsampleIndices(length, ratio) and subsampleFeatures(numFeatures,
\* ratio): every index in order for a ratio >= 1; otherwise the first
\* floor(length * ratio) entries of a shuffle by Math.random, which may be
\* any arrangement of that many distinct indices: the set of the outcomes
SubsampleIndices(length, ratio) ==
  IF RatLe(One, ratio) THEN {[i \in 1..length |-> i]}
  ELSE LET sampleSize == (length * ratio[1]) \div ratio[2]
       IN  {idx \in [1..sampleSize -> 1..length] :
              \A a, b \in 1..sampleSize : a # b => idx[a] # idx[b]}

\* findBestSplit(X, y): Null, or [featureIndex, threshold, gain]; the
\* features are all considered (colsampleByTree is 1 in the model's configs)
FindBestSplit(X, y, config) ==
  Only({IF acc.bestFeatureIndex = 0 THEN Null
        ELSE Some([featureIndex |-> acc.bestFeatureIndex,
                   threshold |-> acc.bestThreshold, gain |-> Get(acc.bestGain)]) :
          acc \in {TryFeatures(X, y, Only(SubsampleIndices(Len(X[1]), config.colsampleByTree)),
                               1, [bestGain |-> Null, bestFeatureIndex |-> 0,
                                   bestThreshold |-> Zero])}})

\* a leaf TreeNode
ServiceLeaf(y) ==
  [isLeaf |-> TRUE, value |-> CalculateLeafValue(y), featureIndex |-> Null,
   featureName |-> Null, left |-> Null, right |-> Null]

RECURSIVE BuildNode(_, _, _, _)
\* buildNode(X, y, depth)
BuildNode(self, X0, y0, depth) ==
  Only({
    IF depth >= self.config.maxDepth \/ Len(X) < self.config.minChildWeight
         \/ IsHomogeneous(y)
    THEN ServiceLeaf(y)
    ELSE Only({
      IF IsNull(bestSplit) THEN ServiceLeaf(y)
      ELSE Only({
        IF Len(split.leftIndices) < self.config.minChildWeight
             \/ Len(split.rightIndices) < self.config.minChildWeight
        THEN ServiceLeaf(y)
        ELSE [isLeaf |-> FALSE,
              value |-> Get(bestSplit).threshold,
              featureIndex |-> Some(Get(bestSplit).featureIndex),
              featureName |-> Some(self.featureNames[Get(bestSplit).featureIndex]),
              left |-> Some(BuildNode(self, Pick(X, split.leftIndices),
                                      Pick(y, split.leftIndices), depth + 1)),
              right |-> Some(BuildNode(self, Pick(X, split.rightIndices),
                                       Pick(y, split.rightIndices), depth + 1))] :
          split \in {SplitData(X, Get(bestSplit).featureIndex,
                               Get(bestSplit).threshold)}}) :
        bestSplit \in {FindBestSplit(X, y, self.config)}}) :
      X \in {X0}, y \in {y0}})

\* buildTree(X, y, depth)
ServiceBuildTree(self, X, y, depth) == [root |-> BuildNode(self, X, y, depth), weight |-> One]

RECURSIVE PredictNode(_, _)
\* predictNode(node, features); a feature the array has no entry for is
\* undefined, and undefined <= value is false
PredictNode(node0, features) ==
  Only({IF node.isLeaf THEN node.value
        ELSE IF IsNull(node.featureIndex) THEN Zero
        ELSE IF Get(node.featureIndex) <= Len(features)
                  /\ RatLe(features[Get(node.featureIndex)], node.value)
             THEN IF IsNull(node.left) THEN Zero ELSE PredictNode(Get(node.left), features)
             ELSE IF IsNull(node.right) THEN Zero
                  ELSE PredictNode(Get(node.right), features) : node \in {node0}})

\* predictTree(tree, features)
PredictTree(tree, features) == PredictNode(tree.root, features)

RECURSIVE AddTrees(_, _, _, _)
\* for (const tree of this.trees) prediction += learningRate * predictTree
AddTrees(self, featureArray, k, prediction0) ==
  Only({IF k > Len(self.trees) THEN prediction
        ELSE AddTrees(self, featureArray, k + 1,
                      RatAdd(prediction, RatMul(self.config.learningRate,
                                                PredictTree(self.trees[k], featureArray)))) :
          prediction \in {prediction0}})

\* the test of predict with the feature names in the place of the trees
ModelNotTrainedByNames(self) == Len(self.featureNames) = 0

\* this.trees.length === 0
ModelNotTrained(self) == Len(self.trees) = 0

\* predict(input) once the model is known to be trained
ServicePredict(self, input, offset) ==
  AddTrees(self, FeaturesToArray(CombineFeatures(input.timestamp, input.features, offset)),
           1, self.baseScore)

\* one iteration of train's loop on the subsample subsampleIndices: the
\* service's fields and the predictions after it
TrainRoundStep(self, X, y, predictions, subsampleIndices) ==
  Only({Only({
      [self |-> [self EXCEPT !.trees = Append(@, tree)],
       predictions |-> [j \in 1..Len(X) |->
                          RatAdd(predictions[j],
                                 RatMul(self.config.learningRate, PredictTree(tree, X[j])))]] :
      tree \in {ServiceBuildTree(self, Pick(X, subsampleIndices),
                                 Pick(residuals, subsampleIndices), 0)}}) :
      residuals \in {[i \in 1..Len(y) |-> RatSub(y[i], predictions[i])]}})

\* ------------------------------------------------------------------ bounds
MaxRows == 3
MaxDepth == 2
MaxRounds == 2
MaxFits == 2

\* the numbers of features of a training set
Widths == {1, 2}
\* feature values of the training rows, and of the vectors predicted for
\* (1 is the midpoint of 0 and 2: a vector can sit exactly on a threshold)
FeatVals == {R(0), R(2)}
TestVals == {R(1), R(2)}
\* targets
YVals == {0, 1}

\* task, numRounds, subsample, colsampleByTree and seed as given to the
\* constructor (Null: not given).  The binary task runs one round: the
\* gradients of a second round would need sigmoid at an irrational point.
Setups ==
  {[task |-> Some("regression"), numRounds |-> Some(MaxRounds),
    subsample |-> Null, colsampleByTree |-> Null, seed |-> Null],
   [task |-> Some("regression"), numRounds |-> Some(MaxRounds),
    subsample |-> Some(Half), colsampleByTree |-> Some(Half), seed |-> Null],
   [task |-> Some("regression"), numRounds |-> Some(1),
    subsample |-> Some(Half), colsampleByTree |-> Some(Half), seed |-> Some(42)],
   [task |-> Some("regression"), numRounds |-> Some(1),
    subsample |-> Some(R(-1)), colsampleByTree |-> Some(Zero), seed |-> Null],
   [task |-> Null, numRounds |-> Some(1),
    subsample |-> Null, colsampleByTree |-> Null, seed |-> Null],
   [task |-> Some("regression"), numRounds |-> Some(1),
    subsample |-> Null, colsampleByTree |-> Some(<<3, 4>>), seed |-> Null]}

\* the XGBoostParams given to the constructor
ParamSpace ==
  {[learningRate |-> Null, maxDepth |-> Some(d), minChildWeight |-> Null,
    numRounds |-> s.numRounds, task |-> s.task, lambda |-> Null, gamma |-> Null,
    subsample |-> s.subsample, colsampleByTree |-> s.colsampleByTree,
    seed |-> s.seed] :
      d \in 0..MaxDepth, s \in Setups}

RECURSIVE LexLt(_, _)
\* row a is before row b in lexicographic order
LexLt(a, b) ==
  IF Len(a) = 0 THEN FALSE
  ELSE IF a[1] # b[1] THEN RatLt(a[1], b[1])
  ELSE LexLt(Tail(a), Tail(b))

\* matrices of n distinct rows of w feature values, in lexicographic order
Matrices(n, w) ==
  {X \in [1..n -> [1..w -> FeatVals]] : \A i \in 1..(n - 1) : LexLt(X[i], X[i + 1])}

\* the training sets a caller holds: n rows of w features, n targets
TrainingSets ==
  UNION {{[X |-> X, y |-> y] : X \in Matrices(n, w), y \in [1..n -> YVals]} :
           n \in 1..MaxRows, w \in Widths}

\* the vectors predictions are asked for: of every length up to the widths
TestVectors == UNION {[1..w -> TestVals] : w \in Widths \cup {0}}

\* a batch of them
TestBatch == << <<>>, <<R(1)>>, <<R(2), R(1)>>, <<R(1), R(2)>> >>

\* the host time zones: New York in winter, UTC, India
Zones == {-300, 0, 330}

\* instants, by their UTC date and time: a Friday afternoon, a Saturday
\* evening, a Sunday before dawn, the last half hour of a leap day, 18:00 of
\* a New Year's Eve and 06:00 of a New Year's Day
Instants ==
  {[y |-> 2024, mo |-> 3, d |-> 15, h |-> 14, mi |-> 20],
   [y |-> 2024, mo |-> 6, d |-> 22, h |-> 20, mi |-> 0],
   [y |-> 2024, mo |-> 12, d |-> 1, h |-> 5, mi |-> 0],
   [y |-> 2024, mo |-> 2, d |-> 29, h |-> 23, mi |-> 30],
   [y |-> 2023, mo |-> 12, d |-> 31, h |-> 18, mi |-> 0],
   [y |-> 2025, mo |-> 1, d |-> 1, h |-> 6, mi |-> 0]}

\* the ISO-8601 string of an instant, with the zone designator z
IsoString(i, z) ==
  [y |-> i.y, mo |-> i.mo, d |-> i.d, h |-> i.h, mi |-> i.mi, z |-> z]

\* an instant as a number, as a Date and as a string ending in Z
AsNumber(i) == [form |-> "number", t |-> Some(MakeTime(i)), iso |-> Null]
AsDate(i) == [form |-> "Date", t |-> Some(MakeTime(i)), iso |-> Null]
AsString(i) == [form |-> "string", t |-> Null, iso |-> Some(IsoString(i, "Z"))]

\* the same date and time written without a zone designator
AsLocalString(i) == [form |-> "string", t |-> Null, iso |-> Some(IsoString(i, ""))]

\* NaN, new Date(NaN) and 'not a date'
InvalidTimestamps ==
  {[form |-> f, t |-> Null, iso |-> Null] : f \in {"number", "Date", "string"}}

\* the timestamps the features are extracted from
Timestamps ==
  UNION {{AsNumber(i), AsDate(i), AsString(i), AsLocalString(i)} : i \in Instants}
  \cup InvalidTimestamps

\* the timestamps and custom features of a caller's TimestampTrainingData:
\* the three forms without custom features, and three rows with one custom
\* feature each
TimeRows ==
  {[timestamps |-> <<AsNumber([y |-> 2024, mo |-> 3, d |-> 15, h |-> 14, mi |-> 20]),
                     AsDate([y |-> 2024, mo |-> 6, d |-> 22, h |-> 20, mi |-> 0]),
                     AsString([y |-> 2024, mo |-> 12, d |-> 1, h |-> 5, mi |-> 0])>>,
    customFeatures |-> Null],
   [timestamps |-> <<AsString([y |-> 2024, mo |-> 2, d |-> 29, h |-> 23, mi |-> 30]),
                     AsNumber([y |-> 2024, mo |-> 12, d |-> 1, h |-> 5, mi |-> 0]),
                     AsDate([y |-> 2025, mo |-> 1, d |-> 1, h |-> 6, mi |-> 0])>>,
    customFeatures |-> Some(<< <<R(5)>>, <<R(7)>>, <<R(5)>> >>)]}

\* the timestamps predictions are asked for, and their custom features
PredictTimestamps ==
  {AsNumber([y |-> 2024, mo |-> 3, d |-> 15, h |-> 14, mi |-> 20]),
   AsString([y |-> 2024, mo |-> 12, d |-> 1, h |-> 5, mi |-> 0])}
PredictCustom == {Null, Some(<<R(6)>>)}

\* a batch of timestamps, and its custom features: none, or one row for two
\* timestamps
BatchTimestamps ==
  <<AsDate([y |-> 2024, mo |-> 6, d |-> 22, h |-> 20, mi |-> 0]),
    AsString([y |-> 2024, mo |-> 2, d |-> 29, h |-> 23, mi |-> 30])>>
BatchCustom == {Null, Some(<< <<R(6)>> >>)}

\* ------------------------------------------------------------------- state
VARIABLES
  inst,    \* inst[m]: the fields of the XGBoost instance m
  train,   \* the training set the caller holds
  call,    \* the fit call in progress (its locals), or Null
  fits,    \* fits[m]: the number of fit calls on m that passed the input guard
  last,    \* the last call, with what it returned
  zone,    \* the host's time zone, in minutes east of UTC
  service, \* the fields of the XGBoostService
  serviceCall \* the locals of the service's train call in progress, or Null

vars == <<inst, train, call, fits, last, zone, service, serviceCall>>

Models == DOMAIN inst

InitWith(n, params, sets) ==
  /\ \E p \in params : inst = [m \in 1..n |-> Construct(p)]
  /\ train \in sets
  /\ call = Null
  /\ fits = [m \in 1..n |-> 0]
  /\ last = [op |-> "new"]

\* the host's time zone is UTC
UTC == 0

\* no XGBoostService call is under way after the constructors
IdleService == service = NewService /\ serviceCall = Null

Init == InitWith(1, ParamSpace, TrainingSets) /\ zone = UTC /\ IdleService

\* what a caller may pass to fit: the training set, and the set damaged.  A
\* ragged matrix (last row one value short) is passed to models of maxDepth 0
\* only, whose fit reads no feature value; elsewhere the code would go on
\* with undefined values.
FitInputs(self) ==
  LET n == Len(train.X)
      w == Len(train.X[1])
  IN  {[kind |-> "valid", X |-> train.X, y |-> train.y],
       [kind |-> "empty", X |-> <<>>, y |-> train.y],
       [kind |-> "zero-width", X |-> [i \in 1..n |-> <<>>], y |-> train.y],
       [kind |-> "count-mismatch", X |-> train.X, y |-> SubSeq(train.y, 1, n - 1)]}
      \cup
      (IF self.maxDepth = 0 /\ n >= 2
       THEN {[kind |-> "ragged",
              X |-> [train.X EXCEPT ![n] = SubSeq(@, 1, w - 1)], y |-> train.y]}
       ELSE {})

\* fit(in.X, in.y) with the reset of the trees before the guard
FitStartResetsFirst(m, in) ==
  IF FitRejects(in.X, in.y)
  THEN /\ last' = [op |-> "fit", m |-> m, kind |-> in.kind, outcome |-> "returned",
                   trained |-> FALSE]
       /\ inst' = [inst EXCEPT ![m].trees = <<>>]
       /\ UNCHANGED <<train, call, fits, zone, service, serviceCall>>
  ELSE /\ fits[m] < MaxFits
       /\ inst' = [inst EXCEPT ![m] = FitReset(@, in.X, in.y)]
       /\ call' = Some([m |-> m, kind |-> in.kind, X |-> in.X, y |-> in.y,
                        raw |-> [i \in 1..Len(in.y) |-> BaseScore(inst[m].task, in.y)],
                        round |-> 0, rowIdx |-> <<>>, featIdx |-> <<>>,
                        grad |-> <<>>, hess |-> <<>>])
       /\ fits' = [fits EXCEPT ![m] = @ + 1]
       /\ last' = [op |-> "fit", m |-> m, kind |-> in.kind, outcome |-> "running",
                   trained |-> FALSE]
       /\ UNCHANGED <<train, zone, service, serviceCall>>

\* fit(in.X, in.y), up to the loop
FitStart(m, in) ==
  IF FitRejects(in.X, in.y)
  THEN /\ last' = [op |-> "fit", m |-> m, kind |-> in.kind, outcome |-> "returned",
                   trained |-> FALSE]
       /\ UNCHANGED <<inst, train, call, fits, zone, service, serviceCall>>
  ELSE /\ fits[m] < MaxFits
       /\ inst' = [inst EXCEPT ![m] = FitReset(@, in.X, in.y)]
       /\ call' = Some([m |-> m, kind |-> in.kind, X |-> in.X, y |-> in.y,
                        raw |-> [i \in 1..Len(in.y) |-> BaseScore(inst[m].task, in.y)],
                        round |-> 0, rowIdx |-> <<>>, featIdx |-> <<>>,
                        grad |-> <<>>, hess |-> <<>>])
       /\ fits' = [fits EXCEPT ![m] = @ + 1]
       /\ last' = [op |-> "fit", m |-> m, kind |-> in.kind, outcome |-> "running",
                   trained |-> FALSE]
       /\ UNCHANGED <<train, zone, service, serviceCall>>

\* fit(X, y), up to the loop
FitCall(m) ==
  /\ IsNull(call)
  /\ \E in \in FitInputs(inst[m]) : FitStart(m, in)

\* the loop's iteration with one generator shared by all the instances
FitRoundSharedRng ==
  /\ ~IsNull(call)
  /\ Get(call).round < inst[Get(call).m].numRounds
  /\ \E c \in {Get(call)} :
       \E step \in {FitRoundStep([inst[c.m] EXCEPT !.rng = inst[1].rng],
                                 c.X, c.y, c.raw)} :
         /\ inst' = [m \in Models |->
                       IF m = c.m THEN step.self
                       ELSE [inst[m] EXCEPT !.rng = step.self.rng]]
         /\ call' = Some([c EXCEPT !.raw = step.raw, !.round = @ + 1,
                                   !.rowIdx = step.rowIdx, !.featIdx = step.featIdx,
                                   !.grad = step.grad, !.hess = step.hess])
  /\ UNCHANGED <<train, fits, last, zone, service, serviceCall>>

\* one iteration of the loop  for (round = 0; round < this.numRounds; round++)
FitRound ==
  /\ ~IsNull(call)
  /\ Get(call).round < inst[Get(call).m].numRounds
  /\ \E c \in {Get(call)} : \E step \in {FitRoundStep(inst[c.m], c.X, c.y, c.raw)} :
         /\ inst' = [inst EXCEPT ![c.m] = step.self]
         /\ call' = Some([c EXCEPT !.raw = step.raw, !.round = @ + 1,
                                   !.rowIdx = step.rowIdx, !.featIdx = step.featIdx,
                                   !.grad = step.grad, !.hess = step.hess])
  /\ UNCHANGED <<train, fits, last, zone, service, serviceCall>>

\* fit returning after its first round
FitReturnEarly ==
  /\ ~IsNull(call)
  /\ Get(call).round >= 1
  /\ call' = Null
  /\ last' = [op |-> "fit", m |-> Get(call).m, kind |-> Get(call).kind,
              outcome |-> "returned", trained |-> TRUE]
  /\ UNCHANGED <<inst, train, fits, zone, service, serviceCall>>

\* the loop ends and fit returns
FitReturn ==
  /\ ~IsNull(call)
  /\ Get(call).round >= inst[Get(call).m].numRounds
  /\ call' = Null
  /\ last' = [op |-> "fit", m |-> Get(call).m, kind |-> Get(call).kind,
              outcome |-> "returned", trained |-> TRUE]
  /\ UNCHANGED <<inst, train, fits, zone, service, serviceCall>>

\* predictSingle(x) drawing a number from the generator
PredictSingleCallDrawing(m) ==
  /\ IsNull(call)
  /\ \E x \in TestVectors :
       last' = [op |-> "predictSingle", m |-> m, x |-> x, outcome |-> "returned",
                ret |-> PredictSingle(inst[m], x)]
  /\ inst' = [inst EXCEPT ![m].rng = Mulberry32Next(@).a]
  /\ UNCHANGED <<train, call, fits, zone, service, serviceCall>>

\* predictSingle(x)
PredictSingleCall(m) ==
  /\ IsNull(call)
  /\ \E x \in TestVectors :
       last' = [op |-> "predictSingle", m |-> m, x |-> x, outcome |-> "returned",
                ret |-> PredictSingle(inst[m], x)]
  /\ UNCHANGED <<inst, train, call, fits, zone, service, serviceCall>>

\* the batches predictions are asked for
Batches == {train.X, TestBatch}

\* predictBatch(X)
PredictBatchCall(m) ==
  /\ IsNull(call)
  /\ \E B \in {train.X} :
       last' = [op |-> "predictBatch", m |-> m, X |-> B, outcome |-> "returned",
                ret |-> PredictBatch(inst[m], B)]
  /\ UNCHANGED <<inst, train, call, fits, zone, service, serviceCall>>

\* const before = m.predictBatch(X); XGBoost.fromJSON(m.toJSON()).predictBatch(X)
RoundTrip(m) ==
  /\ IsNull(call)
  /\ \E B \in Batches :
       last' = [op |-> "roundTrip", m |-> m, X |-> B, outcome |-> "returned",
                before |-> PredictBatch(inst[m], B),
                after |-> PredictBatch(FromJSON(ToJSON(inst[m])), B)]
  /\ UNCHANGED <<inst, train, call, fits, zone, service, serviceCall>>

\* getFeatureImportance()
GetFeatureImportanceCall(m) ==
  /\ IsNull(call)
  /\ last' = [op |-> "getFeatureImportance", m |-> m, outcome |-> "returned",
              ret |-> GetFeatureImportance(inst[m])]
  /\ UNCHANGED <<inst, train, call, fits, zone, service, serviceCall>>

Next ==
  \/ \E m \in Models : FitCall(m)
  \/ FitRound
  \/ FitReturn
  \/ \E m \in Models : PredictSingleCall(m)
  \/ \E m \in Models : PredictBatchCall(m)
  \/ \E m \in Models : RoundTrip(m)
  \/ \E m \in Models : GetFeatureImportanceCall(m)

Spec == Init /\ [][Next]_vars

\* ------------------------------------------------- timestamps: the calls
\* the TimestampTrainingData the caller holds
TimeData ==
  [timestamps |-> train.timestamps, customFeatures |-> train.customFeatures,
   y |-> train.y]

\* what a caller may pass to prepareTimestampFeatures: the data, and the
\* data with the custom features of the last row missing, with no custom
\* feature in the first row, and with a first timestamp that is not a date
PrepareInputs ==
  {TimeData,
   [TimeData EXCEPT !.timestamps[1] = [form |-> "string", t |-> Null, iso |-> Null]]}
  \cup
  (IF IsNull(train.customFeatures) THEN {}
   ELSE {[TimeData EXCEPT !.customFeatures =
            Some(SubSeq(Get(@), 1, Len(Get(@)) - 1))],
         [TimeData EXCEPT !.customFeatures = Some([Get(@) EXCEPT ![1] = <<>>])]})

\* extractTimestampFeatures(timestamp)
ExtractTimestampFeaturesCall ==
  /\ IsNull(call)
  /\ \E timestamp \in Timestamps :
       last' = [op |-> "extractTimestampFeatures", timestamp |-> timestamp,
                outcome |-> "returned",
                ret |-> ExtractTimestampFeatures(timestamp, zone)]
  /\ UNCHANGED <<inst, train, call, fits, zone, service, serviceCall>>

\* timestampFeaturesToArray(extractTimestampFeatures(timestamp))
TimestampFeaturesToArrayCall ==
  /\ IsNull(call)
  /\ \E timestamp \in {AsNumber(i) : i \in Instants} \cup InvalidTimestamps :
       \E features \in {ExtractTimestampFeatures(timestamp, zone)} :
         last' = [op |-> "timestampFeaturesToArray", features |-> features,
                  outcome |-> "returned", ret |-> TimestampFeaturesToArray(features)]
  /\ UNCHANGED <<inst, train, call, fits, zone, service, serviceCall>>

\* prepareTimestampFeatures(data)
PrepareTimestampFeaturesCall ==
  /\ IsNull(call)
  /\ \E data \in PrepareInputs :
       last' = [op |-> "prepareTimestampFeatures", data |-> data, outcome |-> "returned",
                ret |-> PrepareTimestampFeatures(data, zone)]
  /\ UNCHANGED <<inst, train, call, fits, zone, service, serviceCall>>

\* fitWithTimestamps(data), up to the loop of fit: on the caller's data, and
\* on data without a timestamp
FitWithTimestampsCall(m) ==
  /\ IsNull(call)
  /\ \E data \in {TimeData, [timestamps |-> <<>>, customFeatures |-> Null, y |-> <<>>]} :
       \E X \in {PrepareTimestampFeatures(data, zone)} :
         FitStart(m, [kind |-> IF Len(X) = 0 THEN "no-timestamp" ELSE "timestamps",
                      X |-> X, y |-> data.y])

\* predictWithTimestamp(timestamp, customFeatures)
PredictWithTimestampCall(m) ==
  /\ IsNull(call)
  /\ \E timestamp \in PredictTimestamps, customFeatures \in PredictCustom :
       last' = [op |-> "predictWithTimestamp", m |-> m, timestamp |-> timestamp,
                customFeatures |-> customFeatures,
                x |-> TimestampVector(timestamp, customFeatures, zone),
                outcome |-> "returned",
                ret |-> PredictWithTimestamp(inst[m], timestamp, customFeatures, zone)]
  /\ UNCHANGED <<inst, train, call, fits, zone, service, serviceCall>>

\* predictBatchWithTimestamps(timestamps, customFeatures)
PredictBatchWithTimestampsCall(m) ==
  /\ IsNull(call)
  /\ \E customFeatures \in BatchCustom :
       last' = [op |-> "predictBatchWithTimestamps", m |-> m,
                timestamps |-> BatchTimestamps, customFeatures |-> customFeatures,
                outcome |-> "returned",
                ret |-> PredictBatchWithTimestamps(inst[m], BatchTimestamps,
                                                   customFeatures, zone)]
  /\ UNCHANGED <<inst, train, call, fits, zone, service, serviceCall>>

\* the constructor arguments of the models trained on timestamps: the
\* deepest trees, with and without sampling
ParamsTime ==
  {p \in ParamSpace : /\ p.maxDepth = Some(MaxDepth)
                      /\ p.task = Some("regression")
                      /\ p.numRounds = Some(MaxRounds)}

\* what the caller holds: a matrix, timestamps with their custom features,
\* and the targets of both
SetsTime ==
  {[X |-> t.X, y |-> t.y, timestamps |-> r.timestamps,
    customFeatures |-> r.customFeatures] :
     t \in {s \in TrainingSets : /\ s.X = << <<R(0), R(0)>>, <<R(0), R(2)>>, <<R(2), R(0)>> >>
                                 /\ s.y = <<0, 1, 1>>},
     r \in TimeRows}

InitTime == InitWith(1, ParamsTime, SetsTime) /\ zone \in Zones /\ IdleService

NextTime ==
  \/ Next
  \/ ExtractTimestampFeaturesCall
  \/ TimestampFeaturesToArrayCall
  \/ PrepareTimestampFeaturesCall
  \/ \E m \in Models : FitWithTimestampsCall(m)
  \/ \E m \in Models : PredictWithTimestampCall(m)
  \/ \E m \in Models : PredictBatchWithTimestampsCall(m)

SpecTime == InitTime /\ [][NextTime]_vars

\* ------------------------------------------- calls of the XGBoostService
Friday == [y |-> 2024, mo |-> 3, d |-> 15, h |-> 14, mi |-> 20]
Saturday == [y |-> 2024, mo |-> 6, d |-> 22, h |-> 20, mi |-> 0]
Sunday == [y |-> 2024, mo |-> 12, d |-> 1, h |-> 5, mi |-> 0]
LeapDay == [y |-> 2024, mo |-> 2, d |-> 29, h |-> 23, mi |-> 30]
NewYear == [y |-> 2025, mo |-> 1, d |-> 1, h |-> 6, mi |-> 0]

\* the TrainingDataPoint arrays passed to train: an empty array, three
\* points without user features, three points with one
ServiceData ==
  {<<>>,
   <<[timestamp |-> AsNumber(Friday), features |-> Null, target |-> 2],
     [timestamp |-> AsDate(Saturday), features |-> Null, target |-> 5],
     [timestamp |-> AsNumber(Sunday), features |-> Null, target |-> 5]>>,
   <<[timestamp |-> AsDate(LeapDay), features |-> Some([temperature |-> R(5)]), target |-> 1],
     [timestamp |-> AsNumber(Sunday), features |-> Some([temperature |-> R(7)]), target |-> 3],
     [timestamp |-> AsDate(NewYear), features |-> Some([temperature |-> R(5)]), target |-> 2]>>}

\* an XGBoostConfig with no field
NoConfig ==
  [maxDepth |-> Null, learningRate |-> Null, numTrees |-> Null, minChildWeight |-> Null,
   subsample |-> Null, colsampleByTree |-> Null]

\* the configs passed to train: undefined, no tree, one stump, two trees on
\* every row, one tree on a subsample of 70 % of the rows
ServiceConfigs ==
  {Null,
   Some([NoConfig EXCEPT !.numTrees = Some(0)]),
   Some([NoConfig EXCEPT !.numTrees = Some(1), !.maxDepth = Some(1)]),
   Some([NoConfig EXCEPT !.numTrees = Some(2), !.maxDepth = Some(3),
                         !.subsample = Some(One)]),
   Some([NoConfig EXCEPT !.numTrees = Some(1), !.subsample = Some(<<7, 10>>)])}

\* the PredictionInputs passed to predict
ServiceInputs ==
  {[timestamp |-> AsNumber(Friday), features |-> Null],
   [timestamp |-> AsDate(Sunday), features |-> Some([temperature |-> R(6)])]}

\* trainingData.map(point => combineFeatures(point.timestamp, point.features))
ProcessedData(trainingData, offset) ==
  [i \in 1..Len(trainingData) |->
     CombineFeatures(trainingData[i].timestamp, trainingData[i].features, offset)]

\* if (config) this.config = { ...this.config, ...config }
MergedConfig(config) ==
  IF IsNull(config) THEN service.config ELSE MergeConfig(service.config, Get(config))

\* train on an array that is not empty, up to its loop: the feature names,
\* the base score and the predictions are set, and the call is noted as
\* running.  The array is passed with a config of at most MaxRounds trees.
TrainStart(trainingData, config, processedData) ==
  /\ MergedConfig(config).numTrees <= MaxRounds
  /\ service' = [service EXCEPT
                   !.config = MergedConfig(config), !.trees = <<>>,
                   !.featureNames = GetFeatureNames(processedData[1]),
                   !.baseScore =
                     RatDiv(SumSeq([i \in 1..Len(trainingData) |->
                                      R(trainingData[i].target)]),
                            R(Len(trainingData)))]
  /\ serviceCall' =
       Some([trainingData |-> trainingData, config |-> config,
             X |-> [i \in 1..Len(processedData) |-> FeaturesToArray(processedData[i])],
             y |-> [i \in 1..Len(trainingData) |-> R(trainingData[i].target)],
             predictions |-> [i \in 1..Len(trainingData) |-> service'.baseScore],
             i |-> 0])
  /\ last' = [op |-> "train", trainingData |-> trainingData, config |-> config,
              outcome |-> "running"]

\* train(trainingData, config) that returns on an empty array
TrainCallReturningOnEmpty ==
  /\ IsNull(serviceCall)
  /\ \E trainingData \in ServiceData :
       \E processedData \in {ProcessedData(trainingData, zone)} :
         \E config \in ServiceConfigs :
           IF Len(processedData) = 0
           THEN /\ service' = [service EXCEPT !.config = MergedConfig(config),
                                              !.trees = <<>>, !.featureNames = <<>>]
                /\ last' = [op |-> "train", trainingData |-> trainingData,
                            config |-> config, outcome |-> "returned"]
                /\ UNCHANGED serviceCall
           ELSE TrainStart(trainingData, config, processedData)
  /\ UNCHANGED <<inst, train, call, fits, zone>>

\* train(trainingData, config) up to its loop: the config is merged and the
\* trees and the feature names are reset, then an empty array is rejected
TrainCall ==
  /\ IsNull(serviceCall)
  /\ \E trainingData \in ServiceData :
       \E processedData \in {ProcessedData(trainingData, zone)} :
         \E config \in ServiceConfigs :
           IF Len(processedData) = 0
           THEN /\ service' = [service EXCEPT !.config = MergedConfig(config),
                                              !.trees = <<>>, !.featureNames = <<>>]
                /\ last' = [op |-> "train", trainingData |-> trainingData,
                            config |-> config, outcome |-> "threw",
                            error |-> "Training data is empty"]
                /\ UNCHANGED serviceCall
           ELSE TrainStart(trainingData, config, processedData)
  /\ UNCHANGED <<inst, train, call, fits, zone>>

\* one iteration of  for (let i = 0; i < this.config.numTrees!; i++)
TrainRound ==
  /\ ~IsNull(serviceCall)
  /\ Get(serviceCall).i < service.config.numTrees
  /\ \E subsampleIndices \in SubsampleIndices(Len(Get(serviceCall).X),
                                              service.config.subsample) :
       LET c == Get(serviceCall)
           after == TrainRoundStep(service, c.X, c.y, c.predictions, subsampleIndices)
       IN  /\ service' = after.self
           /\ serviceCall' = Some([c EXCEPT !.predictions = after.predictions,
                                            !.i = c.i + 1])
  /\ UNCHANGED <<inst, train, call, fits, last, zone>>

\* train returns after the last iteration
TrainReturn ==
  /\ ~IsNull(serviceCall)
  /\ Get(serviceCall).i >= service.config.numTrees
  /\ serviceCall' = Null
  /\ last' = [op |-> "train", trainingData |-> Get(serviceCall).trainingData,
              config |-> Get(serviceCall).config, outcome |-> "returned"]
  /\ UNCHANGED <<inst, train, call, fits, zone, service>>

\* predict(input)
PredictCall ==
  /\ IsNull(serviceCall)
  /\ \E input \in ServiceInputs :
       last' = IF ModelNotTrained(service)
               THEN [op |-> "predict", input |-> input, outcome |-> "threw",
                     error |-> "Model not trained. Call train() first."]
               ELSE [op |-> "predict", input |-> input, outcome |-> "returned",
                     ret |-> ServicePredict(service, input, zone)]
  /\ UNCHANGED <<inst, train, call, fits, zone, service, serviceCall>>

\* getModelSummary()
GetModelSummaryCall ==
  /\ IsNull(serviceCall)
  /\ last' = [op |-> "getModelSummary",
              ret |-> [numTrees |-> Len(service.trees),
                       featureNames |-> service.featureNames,
                       config |-> service.config]]
  /\ UNCHANGED <<inst, train, call, fits, zone, service, serviceCall>>

\* an XGBoost instance of default sampling stands by, unused
InitService ==
  /\ InitWith(1, {p \in ParamsTime : IsNull(p.subsample) /\ IsNull(p.colsampleByTree)},
              {t \in SetsTime : IsNull(t.customFeatures)})
  /\ zone \in Zones
  /\ IdleService

NextService ==
  \/ TrainCall
  \/ TrainRound
  \/ TrainReturn
  \/ PredictCall
  \/ GetModelSummaryCall

SpecService == InitService /\ [][NextService]_vars

\* ------------------------------------ fits under other hyperparameters
\* constructor parameters that set lambda, gamma and minChildWeight: the
\* defaults; no regularisation; a split loss of 1/16 with children of two
\* rows at least; halved columns; the binary task with light children
ParamsSplit ==
  {[learningRate |-> Null, maxDepth |-> Some(MaxDepth), minChildWeight |-> h.minChildWeight,
    numRounds |-> h.numRounds, task |-> h.task, lambda |-> h.lambda, gamma |-> h.gamma,
    subsample |-> Null, colsampleByTree |-> h.colsampleByTree, seed |-> Null] :
      h \in {[task |-> Some("regression"), numRounds |-> Some(MaxRounds), lambda |-> Null,
              gamma |-> Null, minChildWeight |-> Null, colsampleByTree |-> Null],
             [task |-> Some("regression"), numRounds |-> Some(MaxRounds), lambda |-> Some(Zero),
              gamma |-> Null, minChildWeight |-> Null, colsampleByTree |-> Null],
             [task |-> Some("regression"), numRounds |-> Some(MaxRounds), lambda |-> Null,
              gamma |-> Some(<<1, 16>>), minChildWeight |-> Some(R(2)),
              colsampleByTree |-> Null],
             [task |-> Some("regression"), numRounds |-> Some(MaxRounds), lambda |-> Null,
              gamma |-> Null, minChildWeight |-> Null, colsampleByTree |-> Some(Half)],
             [task |-> Some("binary"), numRounds |-> Some(1), lambda |-> Some(Zero),
              gamma |-> Null, minChildWeight |-> Some(<<1, 5>>),
              colsampleByTree |-> Null]}}

\* training sets of four and three rows, not sorted: one feature of four
\* values (once with targets all the same), two features with repeated
\* values
SetsSplit ==
  {[X |-> << <<R(4)>>, <<R(0)>>, <<R(2)>>, <<R(1)>> >>, y |-> y] :
     y \in {<<1, 0, 1, 0>>, <<0, 0, 1, 1>>, <<0, 1, 0, 0>>, <<1, 1, 1, 1>>}}
  \cup
  {[X |-> << <<R(2), R(2)>>, <<R(0), R(2)>>, <<R(2), R(0)>>, <<R(0), R(0)>> >>,
    y |-> <<1, 0, 0, 0>>],
   [X |-> << <<R(2), R(0)>>, <<R(0), R(0)>>, <<R(0), R(2)>> >>, y |-> <<1, 0, 1>>]}

InitSplit == InitWith(1, ParamsSplit, SetsSplit) /\ zone = UTC /\ IdleService

SpecSplit == InitSplit /\ [][Next]_vars

\* ------------------------------------------------------ what is observed
\* the model m has come out of a fit call that passed the input guard, and
\* no fit is in progress
Trained(m) == IsNull(call) /\ fits[m] >= 1

\* the inputs fit's contract excludes: no row, rows of unequal lengths, or a
\* number of rows that differs from the number of targets
BadShapes == {"empty", "ragged", "count-mismatch"}

\* C1: fit(X, y) fails with an InputError, and never returns normally, when
\* X is empty, its rows have unequal lengths, or the number of rows differs
\* from the number of targets.
C1_InvalidFitFails ==
  (last.op = "fit" /\ last.kind \in BadShapes /\ last.outcome # "running")
    => last.outcome = "InputError"

\* C2: a prediction asked of a model whose ensemble holds no tree fails with
\* UntrainedModelError instead of returning a number.
C2_UntrainedPredictFails ==
  (last.op \in {"predictSingle", "predictBatch"} /\ Len(inst[last.m].trees) = 0)
    => last.outcome = "UntrainedModelError"

\* C4: for a trained model m and a batch X,
\* XGBoost.fromJSON(m.toJSON()).predictBatch(X) equals m.predictBatch(X)
\* element by element.
C4_RoundTrip ==
  (last.op = "roundTrip" /\ Trained(last.m)) => last.after = last.before

\* a trained model of non-zero base score answered a batch with different
\* values, before and after the round trip
C4_Witness ==
  /\ last.op = "roundTrip" /\ Trained(last.m)
  /\ last.X = TestBatch
  /\ Len(inst[last.m].trees) = MaxRounds
  /\ inst[last.m].baseScore # Plain(Zero)
  /\ \E i, j \in 1..Len(last.before) : last.before[i] # last.before[j]

\* ---------------------------------------------- two instances, same inputs
\* the constructor arguments with sampling, at the deepest trees
ParamsTwo == {p \in ParamSpace : p.maxDepth = Some(MaxDepth) /\ ~IsNull(p.subsample)}

\* training sets of the most rows, with a target that varies
SetsTwo ==
  {t \in TrainingSets : Len(t.X) = MaxRows /\ t.y[1] = 0 /\ t.y[2] = 1}

\* const a = new XGBoost(p), b = new XGBoost(p)
InitTwo == InitWith(2, ParamsTwo, SetsTwo) /\ zone = UTC /\ IdleService
SpecTwo == InitTwo /\ [][Next]_vars

\* C3: with the same seed, hyperparameters and training data, one fit on
\* each of two freshly constructed models gives identical ensembles (trees,
\* base score, importance vectors) and identical predictions for every test
\* vector, sampling of rows and columns included.
C3_Determinism ==
  (IsNull(call) /\ fits[1] = 1 /\ fits[2] = 1) =>
    /\ inst[1].trees = inst[2].trees
    /\ inst[1].baseScore = inst[2].baseScore
    /\ inst[1].importanceGain = inst[2].importanceGain
    /\ inst[1].importanceCount = inst[2].importanceCount
    /\ \A x \in TestVectors : PredictSingle(inst[1], x) = PredictSingle(inst[2], x)

\* both models have returned from their one fit, rows and columns were
\* sampled at rate 1/2, and the ensemble has a tree that splits
C3_Witness ==
  /\ IsNull(call) /\ fits[1] = 1 /\ fits[2] = 1
  /\ last.op = "fit" /\ last.trained
  /\ inst[1].subsample = Half /\ inst[1].colsampleByTree = Half
  /\ \E k \in 1..Len(inst[2].trees) : ~inst[2].trees[k].root.isLeaf

\* ------------------------------------------------------------- tree shape
RECURSIVE WellShaped(_)
\* a split node has a feature index, a threshold and two children, a leaf
\* has a weight and no child
WellShaped(node) ==
  IF node.isLeaf
  THEN ~IsNull(node.value) /\ IsNull(node.left) /\ IsNull(node.right)
  ELSE /\ ~IsNull(node.featureIndex) /\ ~IsNull(node.threshold)
       /\ ~IsNull(node.left) /\ ~IsNull(node.right)
       /\ IsNull(node.value)
       /\ WellShaped(Get(node.left)) /\ WellShaped(Get(node.right))

RECURSIVE Height(_)
\* the most edges from the node down to a leaf
Height(node) ==
  IF IsNull(node.left) \/ IsNull(node.right) THEN 0
  ELSE 1 + Max(Height(Get(node.left)), Height(Get(node.right)))

\* the roots of the trees of model m
Roots(m) == {inst[m].trees[k].root : k \in 1..Len(inst[m].trees)}

\* C5: in every tree fit produces, a non-leaf node has a feature index, a
\* threshold and two children, a leaf has a weight and no children, and no
\* leaf is more than maxDepth edges below the root.
C5_TreeShape ==
  \A m \in Models : \A root \in Roots(m) :
    WellShaped(root) /\ Height(root) <= inst[m].maxDepth

\* a trained model holds a tree as deep as maxDepth allows, two levels
C5_Witness ==
  \E m \in Models :
    /\ Trained(m) /\ inst[m].maxDepth = 2
    /\ \E root \in Roots(m) : Height(root) = 2

\* ----------------------------------------------------------------- rounds
\* fit runs to completion once called: nothing else runs in between
FairSpec == Spec /\ WF_vars(FitRound) /\ WF_vars(FitReturn)

\* the ensemble has one tree per round done, and numRounds trees at return
TreePerRound ==
  /\ ~IsNull(call) =>
       /\ Len(inst[Get(call).m].trees) = Get(call).round
       /\ Get(call).round <= inst[Get(call).m].numRounds
  /\ (last.op = "fit" /\ last.trained) =>
       Len(inst[last.m].trees) = inst[last.m].numRounds

\* a round keeps the trees there are and adds one after them
AppendsOneTree ==
  FitRound =>
    \A m \in Models :
      IF m = Get(call).m
      THEN /\ Len(inst'[m].trees) = Len(inst[m].trees) + 1
           /\ SubSeq(inst'[m].trees, 1, Len(inst[m].trees)) = inst[m].trees
      ELSE inst'[m].trees = inst[m].trees

\* C6: on valid input fit ends after exactly numRounds rounds; each round
\* appends one tree, and at return the ensemble holds numRounds trees in
\* the order they were built.
C6_Rounds ==
  /\ []TreePerRound
  /\ [][AppendsOneTree]_vars
  /\ (~IsNull(call) ~> IsNull(call))

\* a fit of the most rounds has returned
C6_Witness ==
  /\ last.op = "fit" /\ last.trained /\ last.kind = "valid"
  /\ inst[last.m].numRounds = MaxRounds
  /\ Len(inst[last.m].trees) = MaxRounds

\* ------------------------------------------------------ identical targets
\* all the training targets are the same value
SameTargets == \A i, j \in 1..Len(train.y) : train.y[i] = train.y[j]

\* every tree of model m is a single leaf
AllLeaves(m) == \A root \in Roots(m) : root.isLeaf

\* the output link applied to the base score alone
LinkedBaseScore(self) ==
  IF self.task = "binary" THEN Sigmoid(self.baseScore) ELSE self.baseScore

C8_RowSubset ==
  (~IsNull(call) /\ Get(call).round >= 1) =>
    /\ Len(Get(call).rowIdx) >= 1
    /\ \A k \in 1..Len(Get(call).rowIdx) : Get(call).rowIdx[k] \in 1..Len(Get(call).y)
    /\ RatLe(One, inst[Get(call).m].subsample) =>
         Get(call).rowIdx = [i \in 1..Len(Get(call).y) |-> i]

\* a round at a negative rate, clamped to 0, drew no row of the most rows
\* and fell back on one
C8_Witness ==
  /\ ~IsNull(call) /\ Get(call).round >= 1
  /\ RatLt(inst[Get(call).m].subsample, Zero)
  /\ Len(Get(call).y) = MaxRows
  /\ Len(Get(call).rowIdx) = 1

\* ------------------------------------------------------------- importance
\* C9: after a fit that passed the guard, the total-gain importance vector
\* has one entry per training feature and every entry is >= 0, after every
\* round and every fit; getFeatureImportance returns that vector.
C9_Importance ==
  /\ \A m \in Models :
       fits[m] >= 1 =>
         /\ Len(inst[m].importanceGain) = Len(train.X[1])
         /\ \A f \in 1..Len(inst[m].importanceGain) :
              RatLe(Zero, inst[m].importanceGain[f])
  /\ (last.op = "getFeatureImportance" /\ fits[last.m] >= 1) =>
       /\ Len(last.ret) = Len(train.X[1])
       /\ \A f \in 1..Len(last.ret) : RatLe(Zero, last.ret[f])

\* after the last fit allowed, a model of two features returns a vector
\* with a positive gain
C9_Witness ==
  /\ last.op = "getFeatureImportance" /\ fits[last.m] = MaxFits
  /\ Len(train.X[1]) = 2
  /\ \E f \in 1..Len(last.ret) : RatLt(Zero, last.ret[f])

\* ------------------------------------------------- the prediction formula
RECURSIVE LeafPaths(_)
\* the leaves below a node, each with its weight and the tests on the way
\* to it: <<feature, threshold, TRUE>> where the way goes left
LeafPaths(node) ==
  IF node.isLeaf THEN {[tests |-> {}, weight |-> Get(node.value)]}
  ELSE {[tests |-> p.tests \cup {<<Get(node.featureIndex), Get(node.threshold), TRUE>>},
         weight |-> p.weight] : p \in LeafPaths(Get(node.left))}
       \cup
       {[tests |-> p.tests \cup {<<Get(node.featureIndex), Get(node.threshold), FALSE>>},
         weight |-> p.weight] : p \in LeafPaths(Get(node.right))}

\* x[feature] <= threshold (false where x has no such entry) is as the way says
Passes(x, t) == (t[1] <= Len(x) /\ RatLe(x[t[1]], t[2])) = t[3]

\* the weights of the leaves x is led to: going left iff x[feature] <= threshold
LeafWeights(node, x) ==
  {p.weight : p \in {q \in LeafPaths(node) : \A t \in q.tests : Passes(x, t)}}

\* link(baseScore + the sum over the trees of learningRate * leafWeight(tree, x))
Formula(self, x) ==
  Only({IF self.task = "binary" THEN Sigmoid(raw) ELSE raw :
          raw \in {[lg |-> self.baseScore.lg,
                    r |-> RatAdd(self.baseScore.r,
                                 SumSeq([k \in 1..Len(self.trees) |->
                                           RatMul(self.learningRate,
                                                  Only(LeafWeights(self.trees[k].root,
                                                                   x)))]))]}})

\* C10 as stated: for any x, predictSingle(x) is link(baseScore + sum over
\* the trees of learningRate * leafWeight(tree, x)), the leaf reached by
\* going left iff x[featureIndex] <= threshold.
C10_AsStated ==
  last.op = "predictSingle" => last.ret = Formula(inst[last.m], last.x)

\* C10: for an x with an entry for every training feature, predictSingle(x)
\* is link(baseScore + sum over the trees of learningRate * leafWeight(tree,
\* x)), exactly one leaf of each tree being reached by going left iff
\* x[featureIndex] <= threshold; predictBatch(X) returns one such value per
\* row, in order.
C10_Prediction ==
  /\ (last.op = "predictSingle" /\ Len(last.x) >= inst[last.m].nFeatures) =>
       /\ \A root \in Roots(last.m) : Cardinality(LeafPaths(root)) >= 1
                                        /\ Cardinality(LeafWeights(root, last.x)) = 1
       /\ last.ret = Formula(inst[last.m], last.x)
  /\ (last.op = "predictBatch"
        /\ \A i \in 1..Len(last.X) : Len(last.X[i]) >= inst[last.m].nFeatures) =>
       /\ Len(last.ret) = Len(last.X)
       /\ \A i \in 1..Len(last.X) : last.ret[i] = Formula(inst[last.m], last.X[i])

\* a trained model with a tree that splits predicted for a full-width x
\* that sits exactly on the threshold of the root
C10_Witness ==
  /\ last.op = "predictSingle" /\ Trained(last.m)
  /\ Len(last.x) = inst[last.m].nFeatures
  /\ Len(inst[last.m].trees) = MaxRounds
  /\ \E root \in Roots(last.m) :
       /\ ~root.isLeaf
       /\ last.x[Get(root.featureIndex)] = Get(root.threshold)
       /\ Get(root.left).value # Get(root.right).value

\* ------------------------------------------- feature index out of range
RECURSIVE OutOfRange(_, _)
\* the traversal of the tree for x comes to a node, at any depth, that tests
\* a feature x has no entry for
OutOfRange(x, node) ==
  IF node.isLeaf THEN FALSE
  ELSE IF Get(node.featureIndex) > Len(x) THEN TRUE
  ELSE IF RatLe(x[Get(node.featureIndex)], Get(node.threshold))
       THEN OutOfRange(x, Get(node.left))
       ELSE OutOfRange(x, Get(node.right))

\* what a tree adds to the raw sum before the learning rate: 0 where the
\* traversal comes to a feature out of range, the weight of the leaf reached
\* otherwise
Contribution(x, root) ==
  IF OutOfRange(x, root) THEN Zero ELSE Only(LeafWeights(root, x))

\* C11: if the traversal of a tree comes to a node whose feature index is >=
\* the length of the prediction vector, at whatever depth, that tree adds
\* exactly 0 to the raw sum, and the prediction goes on with the other trees
\* (each adding learningRate * its leaf weight) and returns.
C11_OutOfRange ==
  last.op = "predictSingle" =>
    /\ last.outcome = "returned"
    /\ LET self == inst[last.m]
           raw == [lg |-> self.baseScore.lg,
                   r |-> RatAdd(self.baseScore.r,
                                SumSeq([k \in 1..Len(self.trees) |->
                                          RatMul(self.learningRate,
                                                 Contribution(last.x,
                                                              self.trees[k].root))]))]
       IN  last.ret = IF self.task = "binary" THEN Sigmoid(raw) ELSE raw

\* a prediction for a vector one entry short, on a model of two trees: the
\* root of a tree tests the feature the vector has, the node the vector is
\* led to below it tests the missing one
C11_Witness ==
  /\ last.op = "predictSingle" /\ Trained(last.m)
  /\ Len(last.x) = 1 /\ inst[last.m].nFeatures = 2
  /\ Len(inst[last.m].trees) = MaxRounds
  /\ \E root \in Roots(last.m) :
       ~root.isLeaf /\ Get(root.featureIndex) <= Len(last.x) /\ OutOfRange(last.x, root)

\* ------------------------------------------------ raw-score bookkeeping
\* the raw score the predictor computes for x from the first k trees
RawOfFirst(self, k, x) ==
  SumTrees([self EXCEPT !.trees = SubSeq(@, 1, k)], x, 1, self.baseScore)

\* C20: in a fit call the raw scores of all rows start at the base score;
\* after every round k the raw score fit keeps for every row i, sampled in
\* that round or not, is the raw score the predictor computes for x[i] from
\* the trees 1..k; and the gradients and hessians of round k were computed
\* from the scores of the trees 1..k-1.
C20_RawScores ==
  ~IsNull(call) =>
    LET c == Get(call)
        self == inst[c.m]
    IN  /\ Len(self.trees) = c.round
        /\ Len(c.raw) = Len(c.y)
        /\ c.round = 0 => \A i \in 1..Len(c.y) : c.raw[i] = self.baseScore
        /\ \A i \in 1..Len(c.y) : c.raw[i] = RawOfFirst(self, c.round, c.X[i])
        /\ c.round >= 1 =>
             \A i \in 1..Len(c.y) :
               /\ c.grad[i] = Gradient(self.task, RawOfFirst(self, c.round - 1, c.X[i]),
                                       c.y[i])
               /\ c.hess[i] = Hessian(self.task, RawOfFirst(self, c.round - 1, c.X[i]))

\* after the last of the most rounds, a row left out of the last round's
\* subsample has a raw score the last tree moved, and its gradient of that
\* round was not the one of the base score
C20_Witness ==
  /\ ~IsNull(call) /\ Get(call).round = MaxRounds
  /\ Len(Get(call).y) = MaxRows
  /\ \E i \in 1..MaxRows :
       /\ \A k \in 1..Len(Get(call).rowIdx) : Get(call).rowIdx[k] # i
       /\ Get(call).raw[i] # RawOfFirst(inst[Get(call).m], MaxRounds - 1, Get(call).X[i])
       /\ Get(call).grad[i] # RatSub(inst[Get(call).m].baseScore.r, R(Get(call).y[i]))

\* ------------------------------------------- per-feature scans, merged
\* the best split of feature f on its own: its scan started from
\* bestGain = -Infinity, best = null
FeatureBest(hp, X, grad, hess, G, H, f) ==
  ScanFeature(hp, X, grad, hess, G, H, f, SortTuples(Len(X), X, f), 1, Zero, Zero,
              [bestGain |-> Null, best |-> Null])

\* the merge of two results [acc, pos], pos the feature's place in the
\* feature order: the larger gain, and of equal gains the earlier place
MergeBest(a, b) ==
  IF IsNull(a.acc.best) THEN b
  ELSE IF IsNull(b.acc.best) THEN a
  ELSE IF RatLt(Get(b.acc.bestGain), Get(a.acc.bestGain)) THEN a
  ELSE IF RatLt(Get(a.acc.bestGain), Get(b.acc.bestGain)) THEN b
  ELSE IF a.pos < b.pos THEN a ELSE b

RECURSIVE ReduceBests(_, _, _, _)
\* the results of the scans merged in their order of completion
ReduceBests(bests, completion, k, merged) ==
  IF k > Len(completion) THEN merged
  ELSE ReduceBests(bests, completion, k + 1, MergeBest(merged, bests[completion[k]]))

\* the orders in which n scans may complete
Completions(n) ==
  {c \in [1..n -> 1..n] : \A i, j \in 1..n : i # j => c[i] # c[j]}

\* at this node, whatever the order of completion of the per-feature scans,
\* their merge is the split the loop over the features chooses
ScansAgree(hp, X, grad, hess, featureIndices) ==
  LET G == SumSeq(grad)
      H == SumSeq(hess)
      bests == [j \in 1..Len(featureIndices) |->
                  [acc |-> FeatureBest(hp, X, grad, hess, G, H, featureIndices[j]),
                   pos |-> j]]
  IN  \A c \in Completions(Len(featureIndices)) :
        ReduceBests(bests, c, 1, [acc |-> [bestGain |-> Null, best |-> Null], pos |-> 0]).acc
          = BestSplit(hp, X, grad, hess, G, H, featureIndices)

RECURSIVE NodesAgree(_, _, _, _, _, _)
\* ScansAgree at every node of the tree _buildTree builds that searches for
\* a split
NodesAgree(hp, X, grad, hess, depth, featureIndices) ==
  LET G == SumSeq(grad)
      H == SumSeq(hess)
      acc == BestSplit(hp, X, grad, hess, G, H, featureIndices)
  IN  IF StopCriteria(hp, X, H, depth) THEN TRUE
      ELSE /\ ScansAgree(hp, X, grad, hess, featureIndices)
           /\ NoPositiveGain(acc) \/
                /\ NodesAgree(hp, Pick(X, Get(acc.best).L), Pick(grad, Get(acc.best).L),
                              Pick(hess, Get(acc.best).L), depth + 1, featureIndices)
                /\ NodesAgree(hp, Pick(X, Get(acc.best).R), Pick(grad, Get(acc.best).R),
                              Pick(hess, Get(acc.best).R), depth + 1, featureIndices)

\* the split search at the root of the last round's tree found two features
\* of the same best gain
TiedFeatures(c) ==
  LET self == inst[c.m]
      X == Pick(c.X, c.rowIdx)
      grad == Pick(c.grad, c.rowIdx)
      hess == Pick(c.hess, c.rowIdx)
      a == FeatureBest(self, X, grad, hess, SumSeq(grad), SumSeq(hess), 1)
      b == FeatureBest(self, X, grad, hess, SumSeq(grad), SumSeq(hess), 2)
  IN  ~IsNull(a.best) /\ ~IsNull(b.best) /\ a.bestGain = b.bestGain

\* C13: the split chosen at a node is the same whether the per-feature scans
\* run one after the other or complete in any order: it is the reduction of
\* each feature's own best split by maximum gain, ties going to the feature
\* earliest in the given feature order.
C13_ScanOrder ==
  (~IsNull(call) /\ Get(call).round >= 1) =>
    LET c == Get(call)
    IN  NodesAgree(inst[c.m], Pick(c.X, c.rowIdx), Pick(c.grad, c.rowIdx),
                   Pick(c.hess, c.rowIdx), 0, c.featIdx)

\* a round whose features were given in the order 2, 1 and whose root found
\* the same best gain on both: the root splits on feature 2
C13_Witness ==
  /\ ~IsNull(call) /\ Get(call).round >= 1
  /\ Get(call).kind = "valid" /\ Get(call).featIdx = <<2, 1>>
  /\ TiedFeatures(Get(call))
  /\ LET root == inst[Get(call).m].trees[Get(call).round].root
     IN  ~root.isLeaf /\ root.featureIndex = Some(2)

\* ---------------------------------------------------- timestamp features
\* the timestamps that are a number, a Date or a string ending in Z of the
\* instant i
FormsOf(i) == {AsNumber(i), AsDate(i), AsString(i)}

\* C14 as stated: extractTimestampFeatures fails with InvalidTimestamp when
\* its input is invalid or unparseable (NaN, an Invalid Date, a string that
\* is not a date).
C14_InvalidTimestampFails ==
  (last.op = "extractTimestampFeatures" /\ last.timestamp \in InvalidTimestamps) =>
    last.outcome = "InvalidTimestamp"

\* q is an integer from lo to hi
IsWhole(q, lo, hi) == q[2] = 1 /\ q[1] \in lo..hi

\* C15: for every instant, extractTimestampFeatures returns hour in 0..23,
\* dayOfWeek in 0..6, dayOfMonth in 1..31, month in 1..12, quarter =
\* ceil(month / 3) in 1..4, isNight = 1 exactly when hour >= 18 or hour < 6
\* (else 0), and isWeekend = 1 exactly when dayOfWeek is 0 or 6 (else 0).
C15_Fields ==
  (last.op = "extractTimestampFeatures" /\ last.timestamp \notin InvalidTimestamps) =>
    LET f == last.ret
    IN  /\ IsWhole(f.hour, 0, 23)
        /\ IsWhole(f.dayOfWeek, 0, 6)
        /\ IsWhole(f.dayOfMonth, 1, 31)
        /\ IsWhole(f.month, 1, 12)
        /\ IsWhole(f.quarter, 1, 4)
        /\ f.quarter[1] = (f.month[1] + 2) \div 3
        /\ f.isNight = IF f.hour[1] >= 18 \/ f.hour[1] < 6 THEN One ELSE Zero
        /\ f.isWeekend = IF f.dayOfWeek[1] \in {0, 6} THEN One ELSE Zero

\* on a host east of UTC, the features of the instant 18:00Z of a Sunday,
\* the last of December: night has begun and the quarter is the fourth
C15_Witness ==
  /\ last.op = "extractTimestampFeatures" /\ zone > 0
  /\ last.timestamp = AsNumber([y |-> 2023, mo |-> 12, d |-> 31, h |-> 18, mi |-> 0])
  /\ last.ret.isNight = One /\ last.ret.isWeekend = One
  /\ last.ret.month = R(12) /\ last.ret.quarter = R(4)

\* C16 as stated: the calendar fields are those of the instant in UTC,
\* identically for the three input forms: for an instant whose UTC time is
\* hour h on weekday d, hour = h and dayOfWeek = d whatever the host time
\* zone.
C16_UtcFields ==
  \A i \in Instants :
    (last.op = "extractTimestampFeatures" /\ last.timestamp \in FormsOf(i)) =>
      /\ last.ret.hour = R(i.h)
      /\ last.ret.dayOfWeek = R(((MakeTime(i) \div MinutesPerDay) + 4) % 7)

\* the 13 values in the order of the claim
Thirteen(f) ==
  <<f.hour, f.dayOfWeek, f.dayOfMonth, f.month, f.quarter, f.isNight, f.isWeekend,
    f.hourSin, f.hourCos, f.dayOfWeekSin, f.dayOfWeekCos, f.monthSin, f.monthCos>>

\* the custom features given for row i: those of the row, none where no
\* custom features or no such row were given
CustomOf(customFeatures, i) ==
  IF IsNull(customFeatures) \/ i > Len(Get(customFeatures)) THEN <<>>
  ELSE Get(customFeatures)[i]

\* the rows the claim lays out for these timestamps and custom features
RowsOf(timestamps, customFeatures) ==
  [i \in 1..Len(timestamps) |->
     Thirteen(ExtractTimestampFeatures(timestamps[i], zone)) \o CustomOf(customFeatures, i)]

\* C17: timestampFeaturesToArray returns exactly 13 values in the order
\* hour, dayOfWeek, dayOfMonth, month, quarter, isNight, isWeekend, hourSin,
\* hourCos, dayOfWeekSin, dayOfWeekCos, monthSin, monthCos;
\* prepareTimestampFeatures, fitWithTimestamps and predictWithTimestamp build
\* each row as those 13 values followed by the row's custom features in
\* caller order (13 + the number of custom features of the row), one row per
\* timestamp.
C17_Layout ==
  /\ last.op = "timestampFeaturesToArray" =>
       Len(last.ret) = 13 /\ last.ret = Thirteen(last.features)
  /\ last.op = "prepareTimestampFeatures" =>
       /\ Len(last.ret) = Len(last.data.timestamps)
       /\ last.ret = RowsOf(last.data.timestamps, last.data.customFeatures)
       /\ \A i \in 1..Len(last.ret) :
            Len(last.ret[i]) = 13 + Len(CustomOf(last.data.customFeatures, i))
  /\ (~IsNull(call) /\ Get(call).kind = "timestamps") =>
       /\ Get(call).X = RowsOf(train.timestamps, train.customFeatures)
       /\ Get(call).y = train.y
       /\ inst[Get(call).m].nFeatures = 13 + Len(CustomOf(train.customFeatures, 1))
  /\ last.op = "predictWithTimestamp" =>
       /\ last.x = Thirteen(ExtractTimestampFeatures(last.timestamp, zone))
                     \o (IF IsNull(last.customFeatures) THEN <<>>
                         ELSE Get(last.customFeatures))
       /\ last.ret = PredictSingle(inst[last.m], last.x)

\* rows prepared from three timestamps, the last one without custom
\* features: 14, 14 and 13 values
C17_Witness ==
  /\ last.op = "prepareTimestampFeatures"
  /\ Len(last.ret) = MaxRows
  /\ Len(last.ret[1]) = 14 /\ last.ret[1][14] = R(5)
  /\ Len(last.ret[MaxRows]) = 13
  /\ last.ret[1][1] # last.ret[1][2]

\* ---------------------------------------------- predictions leave the model
PredictionOps ==
  {"predictSingle", "predictBatch", "predictWithTimestamp", "predictBatchWithTimestamps"}

\* the value the prediction recorded in rec has on the model self
SameCall(self, rec) ==
  IF rec.op = "predictSingle" THEN PredictSingle(self, rec.x)
  ELSE IF rec.op = "predictBatch" THEN PredictBatch(self, rec.X)
  ELSE IF rec.op = "predictWithTimestamp"
       THEN PredictWithTimestamp(self, rec.timestamp, rec.customFeatures, zone)
  ELSE PredictBatchWithTimestamps(self, rec.timestamps, rec.customFeatures, zone)

\* C12: a prediction (predictSingle, predictBatch, predictWithTimestamp,
\* predictBatchWithTimestamps) leaves every field of every model as it was:
\* trees, base score, hyperparameters, importance vectors, generator state;
\* and what it returned is what the same call returns on the model it
\* leaves, so predictions return the same values in whatever order they run.
PredictionStep ==
  (last'.op \in PredictionOps /\ last' # last) =>
    /\ inst' = inst
    /\ last'.ret = SameCall(inst'[last'.m], last')
C12_PredictionFrame == [][PredictionStep]_vars

\* a batch predicted from timestamps by a model that was trained on
\* timestamps with row and column sampling (its generator has advanced) and
\* has a tree that splits
C12_Witness ==
  /\ last.op = "predictBatchWithTimestamps" /\ Trained(last.m)
  /\ inst[last.m].nFeatures >= 13
  /\ inst[last.m].rng # Mulberry32Seed(inst[last.m].seed)
  /\ \E root \in Roots(last.m) : ~root.isLeaf
  /\ ~IsNull(last.customFeatures)
\* ------------------------------------------------- the XGBoostService
\* C18: predict of the XGBoostService throws 'Model not trained. Call
\* train() first.' in every state in which the service holds no tree, and
\* returns a number in every state in which it holds at least one tree.
C18_PredictGuard ==
  last.op = "predict" =>
    IF Len(service.trees) = 0
    THEN /\ last.outcome = "threw"
         /\ last.error = "Model not trained. Call train() first."
    ELSE /\ last.outcome = "returned"
         /\ last.ret \in Int \X Nat

\* predict has thrown on a service that train left with feature names and
\* no tree (numTrees 0)
C18_Witness ==
  /\ last.op = "predict"
  /\ last.outcome = "threw"
  /\ Len(service.trees) = 0
  /\ Len(service.featureNames) > 0

\* C19: train of the XGBoostService throws 'Training data is empty' whenever
\* it is called with an empty training array, whatever config is passed and
\* whatever the service's previous state.
C19_EmptyRejected ==
  (last.op = "train" /\ Len(last.trainingData) = 0) =>
    /\ last.outcome = "threw"
    /\ last.error = "Training data is empty"

\* train has thrown on an empty array passed with a config, on a service an
\* earlier train had configured to stumps
C19_Witness ==
  /\ last.op = "train"
  /\ Len(last.trainingData) = 0
  /\ last.outcome = "threw"
  /\ ~IsNull(last.config)
  /\ IsNull(Get(last.config).maxDepth)
  /\ service.config.maxDepth = 1

\* ------------------------------------------------------- the split search
\* the sum of s over the rows in the set rows
SumOver(s, rows) == SumSeq([k \in 1..Len(s) |-> IF k \in rows THEN s[k] ELSE Zero])

\* the rows of X whose feature f is at most v, and the others
RowsUpTo(X, f, v) == {i \in 1..Len(X) : RatLe(X[i][f], v)}
RowsAbove(X, f, v) == {i \in 1..Len(X) : ~RatLe(X[i][f], v)}

\* the rows in the set rows, as the sequence of their indices
AsSeq(n, rows) ==
  LET in(k) == k \in rows
  IN  SelectSeq([k \in 1..n |-> k], in)

\* 1/2 GL^2/(HL+lambda) + 1/2 GR^2/(HR+lambda) - 1/2 G^2/(H+lambda) - gamma
\* of the split of the rows of X at the value a of feature f
GainAt(hp, X, grad, hess, f, a) ==
  LET all == 1..Len(X)
      term(rows) == RatDiv(RatMul(Half, RatMul(SumOver(grad, rows), SumOver(grad, rows))),
                           RatAdd(SumOver(hess, rows), hp.lambda))
  IN  RatSub(RatSub(RatAdd(term(RowsUpTo(X, f, a)), term(RowsAbove(X, f, a))), term(all)),
             hp.gamma)

\* the valid candidates at a node: j the place of the feature in the order
\* given, a and b two adjacent values of the feature among the node's rows,
\* both sides of a hessian sum of minChildWeight at least
SplitCandidates(hp, X, grad, hess, featureIndices) ==
  UNION {LET f == featureIndices[j]
             vals == {X[i][f] : i \in 1..Len(X)}
             next(a) == {w \in vals : /\ RatLt(a, w)
                                      /\ ~\E u \in vals : RatLt(a, u) /\ RatLt(u, w)}
             valid(a) ==
               /\ ~RatLt(SumOver(hess, RowsUpTo(X, f, a)), hp.minChildWeight)
               /\ ~RatLt(SumOver(hess, RowsAbove(X, f, a)), hp.minChildWeight)
         IN  UNION {{[j |-> j, f |-> f, a |-> a, b |-> b,
                      gain |-> GainAt(hp, X, grad, hess, f, a)] : b \in next(a)} :
                      a \in {v \in vals : valid(v)}} :
           j \in 1..Len(featureIndices)}

\* candidate c is scanned before candidate d
ScannedBefore(c, d) == c.j < d.j \/ (c.j = d.j /\ RatLt(c.a, d.a))

\* c has the maximum gain of the candidates and is the first of that gain
FirstOfMaxGain(c, cands) ==
  \A d \in cands : /\ RatLe(d.gain, c.gain)
                   /\ d.gain = c.gain => (d = c \/ ScannedBefore(c, d))

RECURSIVE BestChosen(_, _, _, _, _, _)
\* every internal node below node, reached by these rows, splits on the
\* first candidate of maximum gain, at the midpoint of its two values
BestChosen(hp, node, X, grad, hess, featureIndices) ==
  node.isLeaf \/
    LET cands == SplitCandidates(hp, X, grad, hess, featureIndices)
        f == Get(node.featureIndex)
        thr == Get(node.threshold)
        L == AsSeq(Len(X), RowsUpTo(X, f, thr))
        R_ == AsSeq(Len(X), RowsAbove(X, f, thr))
    IN  /\ \E c \in cands :
             /\ c.f = f
             /\ thr = RatDiv(RatAdd(c.a, c.b), R(2))
             /\ FirstOfMaxGain(c, cands)
        /\ BestChosen(hp, Get(node.left), Pick(X, L), Pick(grad, L), Pick(hess, L),
                      featureIndices)
        /\ BestChosen(hp, Get(node.right), Pick(X, R_), Pick(grad, R_), Pick(hess, R_),
                      featureIndices)

\* the tree of the round just run, and the rows, gradients and hessians it
\* was built from
RoundTree == inst[Get(call).m].trees[Get(call).round].root
RoundX == Pick(Get(call).X, Get(call).rowIdx)
RoundGrad == Pick(Get(call).grad, Get(call).rowIdx)
RoundHess == Pick(Get(call).hess, Get(call).rowIdx)
InRound == ~IsNull(call) /\ Get(call).round >= 1 /\ Get(call).kind = "valid"

\* C21: the gain of a valid candidate is 1/2 GL^2/(HL+lambda) + 1/2
\* GR^2/(HR+lambda) - 1/2 G^2/(H+lambda) - gamma; every internal node splits
\* on a candidate of the maximum gain over all valid candidates of all
\* candidate features, at the midpoint of its two adjacent values, and of
\* the candidates of that gain on the first in scan order (features in the
\* order given, values ascending).
C21_BestSplit ==
  InRound => BestChosen(inst[Get(call).m], RoundTree, RoundX, RoundGrad, RoundHess,
                        Get(call).featIdx)

\* the root of a round's tree had two candidates of the maximum gain and
\* one of a smaller gain, and split on the first of the two
C21_Witness ==
  /\ InRound
  /\ ~RoundTree.isLeaf
  /\ LET cands == SplitCandidates(inst[Get(call).m], RoundX, RoundGrad, RoundHess,
                                  Get(call).featIdx)
     IN  \E c, d, e \in cands :
           /\ FirstOfMaxGain(c, cands) /\ d # c /\ d.gain = c.gain
           /\ RatLt(e.gain, c.gain)
           /\ RoundTree.featureIndex = Some(c.f)

\* --------------------------------------------------------- split validity
\* the members of a sequence
Range(s) == {s[k] : k \in 1..Len(s)}

\* the split best = { f, thr, L, R } found with gain bestGain at a node of
\* these rows is between two adjacent values, parts the rows by the
\* threshold into two non-empty sides heavy enough, and its left side is
\* the prefix of the sorted tuples whose sums gave the gain
SplitValid(hp, X, grad, hess, best, bestGain) ==
  LET vals == {X[i][best.f] : i \in 1..Len(X)}
      tuples == SortTuples(Len(X), X, best.f)
  IN  /\ \E a, b \in vals :
           /\ RatLt(a, b) /\ ~\E u \in vals : RatLt(a, u) /\ RatLt(u, b)
           /\ RatLe(a, best.thr) /\ RatLt(best.thr, b)
      /\ Range(best.L) = RowsUpTo(X, best.f, best.thr)
      /\ Range(best.R) = RowsAbove(X, best.f, best.thr)
      /\ Range(best.L) \cap Range(best.R) = {}
      /\ Range(best.L) \cup Range(best.R) = 1..Len(X)
      /\ Len(best.L) + Len(best.R) = Len(X)
      /\ Len(best.L) >= 1 /\ Len(best.R) >= 1
      /\ RatLe(hp.minChildWeight, SumOver(hess, Range(best.L)))
      /\ RatLe(hp.minChildWeight, SumOver(hess, Range(best.R)))
      /\ \E i \in 1..(Len(X) - 1) :
           LET prefix == {tuples[k] : k \in 1..i}
           IN  /\ Range(best.L) = prefix
               /\ bestGain = SplitGain(SumOver(grad, prefix), SumOver(hess, prefix),
                                       RatSub(SumSeq(grad), SumOver(grad, prefix)),
                                       RatSub(SumSeq(hess), SumOver(hess, prefix)),
                                       SumSeq(grad), SumSeq(hess), hp.lambda, hp.gamma)

RECURSIVE SplitsValid(_, _, _, _, _, _, _)
\* every internal node below node, built by _buildTree at this depth from
\* these rows, is the split the search found there, that split is valid,
\* and its children were built from its two sides
SplitsValid(hp, node, X, grad, hess, depth, featureIndices) ==
  node.isLeaf \/
    LET acc == BestSplit(hp, X, grad, hess, SumSeq(grad), SumSeq(hess), featureIndices)
        best == Get(acc.best)
    IN  /\ ~IsNull(acc.best)
        /\ node.featureIndex = Some(best.f) /\ node.threshold = Some(best.thr)
        /\ SplitValid(hp, X, grad, hess, best, Get(acc.bestGain))
        /\ SplitsValid(hp, Get(node.left), Pick(X, best.L), Pick(grad, best.L),
                       Pick(hess, best.L), depth + 1, featureIndices)
        /\ SplitsValid(hp, Get(node.right), Pick(X, best.R), Pick(grad, best.R),
                       Pick(hess, best.R), depth + 1, featureIndices)

SomePositiveGain(hp, X, grad, hess, featureIndices) ==
  \E c \in SplitCandidates(hp, X, grad, hess, featureIndices) : RatLt(Zero, c.gain)

\* depth >= maxDepth, or H < minChildWeight, or at most one row
Stopped(hp, X, hess, depth) ==
  depth >= hp.maxDepth \/ RatLt(SumOver(hess, 1..Len(X)), hp.minChildWeight) \/ Len(X) <= 1

RECURSIVE LeafRule(_, _, _, _, _, _, _)
\* every node below node, built by _buildTree at this depth from these
\* rows, is a leaf exactly when it is stopped or no valid candidate has a
\* gain above 0; a leaf weighs -G/(H+lambda) over these rows; an internal
\* node comes from a split of a gain above 0
LeafRule(hp, node, X, grad, hess, depth, featureIndices) ==
  LET all == 1..Len(X)
      acc == BestSplit(hp, X, grad, hess, SumSeq(grad), SumSeq(hess), featureIndices)
      best == Get(acc.best)
  IN  /\ node.isLeaf <=> (Stopped(hp, X, hess, depth)
                            \/ ~SomePositiveGain(hp, X, grad, hess, featureIndices))
      /\ IF node.isLeaf
         THEN node.value = Some(RatDiv(RatNeg(SumOver(grad, all)),
                                       RatAdd(SumOver(hess, all), hp.lambda)))
         ELSE /\ RatLt(Zero, Get(acc.bestGain))
              /\ LeafRule(hp, Get(node.left), Pick(X, best.L), Pick(grad, best.L),
                          Pick(hess, best.L), depth + 1, featureIndices)
              /\ LeafRule(hp, Get(node.right), Pick(X, best.R), Pick(grad, best.R),
                          Pick(hess, best.R), depth + 1, featureIndices)

\* C23: a node is a leaf exactly when depth >= maxDepth, or its hessian sum
\* H < minChildWeight, or it has at most one row, or no valid candidate
\* split has gain > 0 (gain already reduced by gamma); every leaf's weight
\* is -G/(H+lambda) over exactly the rows that reached it; every internal
\* node was created by a split of strictly positive gain.
C23_LeafRule ==
  InRound => LeafRule(inst[Get(call).m], RoundTree, RoundX, RoundGrad, RoundHess, 0,
                      Get(call).featIdx)

\* the root of a round's tree is a leaf though it was not stopped: its
\* valid candidates had gains that gamma brought from above 0 to 0 or below
C23_Witness ==
  /\ InRound
  /\ RoundTree.isLeaf
  /\ ~Stopped(inst[Get(call).m], RoundX, RoundHess, 0)
  /\ LET cands == SplitCandidates(inst[Get(call).m], RoundX, RoundGrad, RoundHess,
                                  Get(call).featIdx)
     IN  /\ cands # {}
         /\ \E c \in cands : RatLt(Zero, RatAdd(c.gain, inst[Get(call).m].gamma))

\* -------------------------------------------------- the features of a tree
RECURSIVE SplitFeatures(_)
\* the features the internal nodes below node split on
SplitFeatures(node) ==
  IF node.isLeaf THEN {}
  ELSE {Get(node.featureIndex)} \cup SplitFeatures(Get(node.left))
         \cup SplitFeatures(Get(node.right))

\* max(1, round(rate * nFeatures)), round to the nearest integer, a half up
KeptFeatures(rate, nFeatures) ==
  LET q == RatMul(rate, R(nFeatures))
      nearest == CHOOSE k \in 0..nFeatures :
                   /\ RatLe(RatSub(R(k), Half), q)
                   /\ RatLt(q, RatAdd(R(k), Half))
  IN  IF nearest < 1 THEN 1 ELSE nearest

\* C24: when colsampleByTree >= 1 the feature subset of a round is all the
\* features in index order; otherwise it is exactly
\* max(1, round(rate * nFeatures)) pairwise distinct features of the
\* training matrix; every internal node of the round's tree splits on a
\* feature of the subset drawn for that round.
C24_ColumnSampling ==
  InRound =>
    LET self == inst[Get(call).m]
        featIdx == Get(call).featIdx
    IN  /\ IF RatLe(One, self.colsampleByTree)
           THEN featIdx = [f \in 1..self.nFeatures |-> f]
           ELSE /\ Len(featIdx) = KeptFeatures(RatMax(Zero, self.colsampleByTree),
                                               self.nFeatures)
                /\ \A j, k \in 1..Len(featIdx) : j # k => featIdx[j] # featIdx[k]
                /\ \A j \in 1..Len(featIdx) : featIdx[j] \in 1..self.nFeatures
        /\ SplitFeatures(RoundTree) \subseteq Range(featIdx)

\* a round with colsampleByTree below 1 kept one of two features, the
\* tree of the round splits, and the feature left out had a valid candidate
C24_Witness ==
  /\ InRound
  /\ RatLt(inst[Get(call).m].colsampleByTree, One)
  /\ inst[Get(call).m].nFeatures = 2
  /\ Get(call).featIdx = <<1>>
  /\ ~RoundTree.isLeaf
  /\ SplitCandidates(inst[Get(call).m], RoundX, RoundGrad, RoundHess, <<2>>) # {}

\* ------------------------------------------------- importance accounting
RECURSIVE SplitsOn(_, _)
\* the number of internal nodes below node that split on feature f
SplitsOn(node, f) ==
  IF node.isLeaf THEN 0
  ELSE (IF Get(node.featureIndex) = f THEN 1 ELSE 0)
         + SplitsOn(Get(node.left), f) + SplitsOn(Get(node.right), f)

RECURSIVE SeqSum(_)
SeqSum(s) == IF Len(s) = 0 THEN 0 ELSE s[1] + SeqSum(Tail(s))

\* the number of internal nodes of the whole ensemble that split on f
EnsembleSplitsOn(self, f) ==
  SeqSum([k \in 1..Len(self.trees) |-> SplitsOn(self.trees[k].root, f)])

RECURSIVE GainsOn(_, _, _, _, _, _)
\* the sum of max(0, gain) over the internal nodes below node that split on
\* feature f, the gain of a node being that of parting the rows that reach
\* it at its threshold
GainsOn(hp, node, X, grad, hess, f) ==
  IF node.isLeaf THEN Zero
  ELSE LET nf == Get(node.featureIndex)
           thr == Get(node.threshold)
           L == AsSeq(Len(X), RowsUpTo(X, nf, thr))
           R0 == AsSeq(Len(X), RowsAbove(X, nf, thr))
       IN  RatAdd(IF nf = f THEN RatMax(Zero, GainAt(hp, X, grad, hess, nf, thr)) ELSE Zero,
                  RatAdd(GainsOn(hp, Get(node.left), Pick(X, L), Pick(grad, L),
                                 Pick(hess, L), f),
                         GainsOn(hp, Get(node.right), Pick(X, R0), Pick(grad, R0),
                                 Pick(hess, R0), f)))

\* the models in a fit call, or just returned from one that trained
FitModels ==
  IF ~IsNull(call) THEN {Get(call).m}
  ELSE IF last.op = "fit" /\ last.outcome = "returned" /\ last.trained THEN {last.m}
  ELSE {}

\* after every round and after fit, the split count of a feature is the
\* number of internal nodes of the ensemble that split on it
CountsMatch ==
  \A m \in FitModels :
    /\ Len(inst[m].importanceCount) = inst[m].nFeatures
    /\ Len(inst[m].importanceGain) = inst[m].nFeatures
    /\ \A f \in 1..inst[m].nFeatures :
         inst[m].importanceCount[f] = EnsembleSplitsOn(inst[m], f)

\* a step of a fit call: a round adds to each feature's entries the splits
\* of its tree, max(0, gain) and 1 each, and no entry decreases; any other
\* step leaves the accumulators alone
AccountsRound ==
  ~IsNull(call) =>
    LET c == Get(call)
        before == inst[c.m]
        after == inst'[c.m]
    IN  IF ~IsNull(call') /\ Get(call').round = c.round + 1
        THEN LET d == Get(call')
                 tree == after.trees[d.round].root
             IN  \A f \in 1..before.nFeatures :
                   /\ after.importanceCount[f] = before.importanceCount[f] + SplitsOn(tree, f)
                   /\ after.importanceGain[f] =
                        RatAdd(before.importanceGain[f],
                               GainsOn(after, tree, Pick(d.X, d.rowIdx), Pick(d.grad, d.rowIdx),
                                       Pick(d.hess, d.rowIdx), f))
                   /\ after.importanceCount[f] >= before.importanceCount[f]
                   /\ RatLe(before.importanceGain[f], after.importanceGain[f])
        ELSE /\ after.importanceGain = before.importanceGain
             /\ after.importanceCount = before.importanceCount

\* C25: each accepted split adds max(0, gain) to the total-gain entry of its
\* feature and 1 to that feature's split count, and nothing else changes the
\* accumulators during a fit; after every round and after fit,
\* importanceCount[f] is the number of internal nodes of the whole ensemble
\* that split on feature f, and neither accumulator decreases from one
\* round to the next.
C25_ImportanceAccounting == []CountsMatch /\ [][AccountsRound]_vars

\* after the second round a feature has two splits or more, and each of the
\* two trees splits
C25_Witness ==
  /\ InRound
  /\ Get(call).round = 2
  /\ \A k \in 1..2 : ~inst[Get(call).m].trees[k].root.isLeaf
  /\ \E f \in 1..inst[Get(call).m].nFeatures :
       /\ inst[Get(call).m].importanceCount[f] >= 2
       /\ RatLt(Zero, inst[Get(call).m].importanceGain[f])

\* ---------------------------------------------------------- tree lifecycle
\* the sequence s goes on as the sequence t began
IsPrefix(s, t) == Len(s) <= Len(t) /\ SubSeq(t, 1, Len(s)) = s

\* the step keeps every tree of every model, in place, and may add some
TreesKept == \A m \in Models : IsPrefix(inst[m].trees, inst'[m].trees)

\* the step is fit(X, y) passing its guard on model m
FitAccepted(m) == IsNull(call) /\ ~IsNull(call') /\ Get(call').m = m

\* C26 as stated: once a tree has been appended to the ensemble it is never
\* mutated and never removed or reordered by any later operation on the
\* model (later rounds, predictions, export, later fit calls); the tree
\* sequence only grows.
C26_TreesOnlyGrow == [][TreesKept]_vars

\* C26, amended: the rounds of a fit call, predictions, export and rejected
\* fit calls keep every tree of the ensemble as it is and in place, and a
\* round adds one tree after them; a fit call that passes its guard first
\* empties the sequence of the model it is called on.
C26_TreeLifecycle ==
  [][\A m \in Models : IF FitAccepted(m) THEN inst'[m].trees = <<>>
                       ELSE IsPrefix(inst[m].trees, inst'[m].trees)]_vars

\* the second fit of a model of two rounds has run its first round: the
\* two trees of the first fit are gone and one tree is there
C26_Witness ==
  \E m \in Models :
    /\ fits[m] = 2 /\ inst[m].numRounds = 2
    /\ ~IsNull(call) /\ Get(call).m = m /\ Get(call).round = 1
    /\ Len(inst[m].trees) = 1

\* ---------------------------------------------------------------- gradients
\* p * (1 - p) or 1e-6, the larger (the product is below both p and 1 - p)
FlooredCurvature(p) ==
  IF RatLe(p, Eps) \/ RatLe(RatSub(One, p), Eps) THEN Eps
  ELSE IF RatLt(RatMul(p, RatSub(One, p)), Eps) THEN Eps
  ELSE RatMul(p, RatSub(One, p))

\* the gradient and the hessian the statement gives for a row of raw score
\* z and target yi; a raw score logit(lg) has the sigmoid lg
GradientOf(task, z, yi) ==
  IF task = "binary" THEN RatSub(z.lg, R(yi)) ELSE RatSub(z.r, R(yi))
HessianOf(task, z) == IF task = "binary" THEN FlooredCurvature(z.lg) ELSE One

RECURSIVE DenominatorsNonZero(_, _, _, _, _, _)
\* at every node below node, H + lambda is not zero, and neither is
\* HL + lambda nor HR + lambda of any valid candidate
DenominatorsNonZero(hp, node, X, grad, hess, featureIndices) ==
  /\ RatAdd(SumOver(hess, 1..Len(X)), hp.lambda) # Zero
  /\ \A c \in SplitCandidates(hp, X, grad, hess, featureIndices) :
       /\ RatAdd(SumOver(hess, RowsUpTo(X, c.f, c.a)), hp.lambda) # Zero
       /\ RatAdd(SumOver(hess, RowsAbove(X, c.f, c.a)), hp.lambda) # Zero
  /\ node.isLeaf \/
       LET L == AsSeq(Len(X), RowsUpTo(X, Get(node.featureIndex), Get(node.threshold)))
           R0 == AsSeq(Len(X), RowsAbove(X, Get(node.featureIndex), Get(node.threshold)))
       IN  /\ DenominatorsNonZero(hp, Get(node.left), Pick(X, L), Pick(grad, L),
                                  Pick(hess, L), featureIndices)
           /\ DenominatorsNonZero(hp, Get(node.right), Pick(X, R0), Pick(grad, R0),
                                  Pick(hess, R0), featureIndices)

\* a round computes, from the raw scores before it, a gradient and a
\* hessian for every training row, the hessian above 0, and builds its tree
\* with no zero denominator
GradientsOfRound ==
  (~IsNull(call) /\ ~IsNull(call') /\ Get(call').round = Get(call).round + 1
     /\ Get(call).kind = "valid") =>
    LET c == Get(call)
        d == Get(call')
        self == inst'[d.m]
    IN  /\ Len(d.grad) = Len(c.y) /\ Len(d.hess) = Len(c.y)
        /\ \A i \in 1..Len(c.y) :
             /\ self.task = "binary" => c.raw[i].r = Zero
             /\ d.grad[i] = GradientOf(self.task, c.raw[i], c.y[i])
             /\ d.hess[i] = HessianOf(self.task, c.raw[i])
             /\ RatLt(Zero, d.hess[i])
        /\ RatLe(Zero, self.lambda)
        /\ DenominatorsNonZero(self, self.trees[d.round].root, Pick(d.X, d.rowIdx),
                               Pick(d.grad, d.rowIdx), Pick(d.hess, d.rowIdx), d.featIdx)

FitRejected ==
  /\ IsNull(call)
  /\ last'.op = "fit" /\ last'.outcome = "returned" /\ ~last'.trained

\* C28: a fit call that is rejected for invalid input (empty X, zero-width
\* first row, or row count different from target count) changes nothing:
\* trees, base score, feature count, both importance vectors and the random
\* generator's state are as before the call, and a model trained before
\* predicts for the training rows what it predicted before.
C28_RejectedFitFrame ==
  [][FitRejected =>
       /\ last'.kind \in {"empty", "zero-width", "count-mismatch"}
       /\ inst' = inst /\ call' = call /\ fits' = fits
       /\ fits[last'.m] >= 1 =>
            PredictBatch(inst'[last'.m], train.X) = PredictBatch(inst[last'.m], train.X)]_vars

\* a model that holds trees has had a fit call rejected for an empty X
C28_Witness ==
  /\ last.op = "fit" /\ last.outcome = "returned" /\ ~last.trained
  /\ last.kind = "empty"
  /\ fits[last.m] >= 1
  /\ Len(inst[last.m].trees) >= 1
  /\ IsNull(call)

\* ------------------------------------------------------ fit on a used model
RECURSIVE FitRounds(_, _, _, _, _)
\* the model after the rounds from round on of fit(X, y)
FitRounds(self, X, y, raw, round) ==
  IF round >= self.numRounds THEN self
  ELSE LET step == FitRoundStep(self, X, y, raw)
       IN  FitRounds(step.self, X, y, step.raw, round + 1)

\* the model after fit(X, y) has run on it with its guard passed
FitWhole(self, X, y) ==
  FitRounds(FitReset(self, X, y), X, y,
            [i \in 1..Len(y) |-> BaseScore(self.task, y)], 0)

\* new XGBoost(params) with the parameters self was constructed with
FreshModel(self) ==
  [self EXCEPT !.rng = Mulberry32Seed(self.seed), !.trees = <<>>,
               !.baseScore = Plain(Zero), !.nFeatures = 0,
               !.importanceGain = <<>>, !.importanceCount = <<>>]

\* C29: fit(X, y) on a model already fitted produces the same ensemble,
\* importance vectors and predictions as fit(X, y) on a freshly constructed
\* model with the same parameters, including when subsample < 1 or
\* colsampleByTree < 1.
C29_RefitEqualsFresh ==
  (last.op = "fit" /\ last.outcome = "returned" /\ last.trained /\ last.kind = "valid") =>
    LET self == inst[last.m]
        fresh == FitWhole(FreshModel(self), train.X, train.y)
    IN  /\ self.trees = fresh.trees
        /\ self.baseScore = fresh.baseScore
        /\ self.importanceGain = fresh.importanceGain
        /\ self.importanceCount = fresh.importanceCount
        /\ PredictBatch(self, train.X) = PredictBatch(fresh, train.X)

\* ------------------------------------------------ train throwing, the state
\* the step is a call of train that throws, on a service that holds trees
TrainThrewOnTrained ==
  /\ IsNull(serviceCall)
  /\ Len(service.trees) >= 1
  /\ last'.op = "train" /\ last'.outcome = "threw"

\* C30: when XGBoostService.train throws (empty training data), the
\* service's state is unchanged: the trees, feature names, base score and
\* configuration of a previously trained model are kept.
C30_FailedTrainFrame == [][TrainThrewOnTrained => service' = service]_vars

====
